---- MODULE Spec2Model ----
(***************************************************************************)
(* A model of the SAML protocol engine of saml-test: the XML signature     *)
(* verifier (utils/samlUtils.ts), the one-shot response relay              *)
(* (functions/acs.js, pages/ACS.tsx), the per-SP request correlation slot  *)
(* and the response flow of the ACS page.                                  *)
(***************************************************************************)
EXTENDS Integers, Sequences, FiniteSets, TLC

(***************************************************************************)
(* Bounds of the model.                                                    *)
(***************************************************************************)
\* the largest number of elements of a Response document
MaxNodes == 4
\* the number of AuthnRequests initiated in one browser session
MaxRequests == 2
\* the number of Responses the IdP posts in one browser session
MaxResponses == 2
\* how long the clock runs on after the lifetime of a bundle
MaxTime == 1
\* how many Attribute elements a Response has at most
MaxAttributes == 2

VARIABLES
    doc,            \* the parsed Response document, elements in document order
    idpCertificate, \* sp.idp.certificate of the SP the document is validated for
    vpc,            \* "building" while the document is put together, then "validated"
    result,         \* the object validateSAMLResponse returned
    respPassed,     \* the Signature validateResponseSignature gave to LoadXml (0: none)
    asrtPassed,     \* the Signature validateAssertionSignature gave to LoadXml (0: none)
    now,            \* Date.now()
    requestIds,     \* sessionStorage, the entries 'saml_request_<spId>'
    samlResponses,  \* sessionStorage, the entries 'saml-response-<responseId>'
    nextRequestId,  \* the next id generateRequestId returns
    nextResponseId, \* the next id crypto.randomUUID returns
    inflight,       \* the calls of initiateSamlAuth that await the signer
    acs,            \* the state of the ACS page of the current visit
    uncorrelated,   \* per SP, the ids dispatched since its last parsed Response
    consumed,       \* per request id, the SPs whose Responses found it stored
    returned,       \* per response id, how often its bundle was handed on
    deployed,       \* the relay in use: "page" (sessionStorage) or "server" (the Map)
    samlSessions,   \* the in-memory Map of the server-side relay
    reply,          \* what the last retrieval request to the server-side relay met
    served,         \* per response id, how often a retrieval was answered with it
    savedSp,        \* the SP record of the SP list that initiations are made for
    initiation,     \* the call of initiateSamlAuth: its inputs and what it did
    arg,            \* the argument a utility function is applied to
    ret,            \* what the utility function returned
    localStorage,   \* localStorage, the entry 'saml-sp-list'
    spListAtom,     \* the jotai atom spListAtom: the ids of the SP list
    hook            \* the mounted instance of useSPStore: render and effects

verifyVars == <<doc, idpCertificate, vpc, result, respPassed, asrtPassed>>

flowVars == <<now, requestIds, samlResponses, nextRequestId, nextResponseId,
              inflight, acs, uncorrelated, consumed, returned>>

serverVars == <<deployed, samlSessions, reply, served>>

buildVars == <<savedSp, initiation>>

utilVars == <<arg, ret>>

storeVars == <<localStorage, spListAtom, hook>>

vars == <<verifyVars, flowVars, serverVars, buildVars, utilVars, storeVars>>

(***************************************************************************)
(* XML documents.  A document is the sequence of its elements in document  *)
(* order (pre-order); element 1 is the document element.  An element       *)
(* carries its qualified tag name, the index of its parent element (0 for  *)
(* the document element) and, for a Signature, what the signature is made  *)
(* of: the key that produced SignatureValue, the certificate embedded in   *)
(* KeyInfo, and whether DigestValue matches the referenced element.        *)
(***************************************************************************)
ResponseTag == "samlp:Response"
AssertionTag == "saml:Assertion"
ContainerTag == "saml:Advice"
DsigSignatureTag == "ds:Signature"
OtherSignatureTag == "x:Signature"

ElementTags == {ResponseTag, AssertionTag, ContainerTag}
SignatureTags == {DsigSignatureTag, OtherSignatureTag}
RootTags == {ResponseTag, AssertionTag}

\* Element.localName
LocalName(tag) ==
    CASE tag = ResponseTag -> "Response"
      [] tag = AssertionTag -> "Assertion"
      [] tag = ContainerTag -> "Advice"
      [] tag = DsigSignatureTag -> "Signature"
      [] tag = OtherSignatureTag -> "Signature"

\* Element.tagName.includes(s)
TagNameIncludes(tag, s) ==
    CASE s = "Response" -> tag = ResponseTag
      [] s = "Assertion" -> tag = AssertionTag
      [] OTHER -> FALSE

\* Element.namespaceURI = 'http://www.w3.org/2000/09/xmldsig#'
InDsigNamespace(tag) == tag = DsigSignatureTag

IdPCert == "IdPCert"
OtherCert == "OtherCert"
NoCert == ""

\* the private key whose public half a certificate carries
KeyOfCert(cert) ==
    CASE cert = IdPCert -> "IdPKey"
      [] cert = OtherCert -> "OtherKey"
      [] OTHER -> "none"

NoSig == [signer |-> "none", keyInfo |-> NoCert, digestOk |-> FALSE]

\* the signatures a document may carry: signed by the IdP with its
\* certificate embedded, signed by the IdP without KeyInfo, signed by another
\* key that embeds its own certificate, and an IdP signature over content
\* that was changed afterwards
SigAttrs ==
    { [signer |-> "IdPKey", keyInfo |-> IdPCert, digestOk |-> TRUE],
      [signer |-> "IdPKey", keyInfo |-> NoCert, digestOk |-> TRUE],
      [signer |-> "OtherKey", keyInfo |-> OtherCert, digestOk |-> TRUE],
      [signer |-> "IdPKey", keyInfo |-> IdPCert, digestOk |-> FALSE] }

Nodes(d) == 1..Len(d)

\* the elements a new last element of the document can be a child of: the
\* last element and its ancestors
RECURSIVE AncestorsOrSelf(_, _)
AncestorsOrSelf(d, i) ==
    IF i = 0 THEN {} ELSE {i} \cup AncestorsOrSelf(d, d[i].parent)

Min(S) == CHOOSE x \in S : \A y \in S : x <= y

\* the first element of S in document order, 0 when there is none
First(S) == IF S = {} THEN 0 ELSE Min(S)

\* xmlDoc.querySelector('ns\\:Name, Name'): the first element in document
\* order with that local name
QuerySelector(d, local) ==
    First({i \in Nodes(d) : LocalName(d[i].tag) = local})

\* element.querySelector(':scope > ds\\:Signature, :scope > Signature')
ScopeChildSignature(d, p) ==
    First({i \in Nodes(d) : d[i].parent = p /\ LocalName(d[i].tag) = "Signature"})

\* xmlDoc.getElementsByTagNameNS('http://www.w3.org/2000/09/xmldsig#', 'Signature')
GetSignatures(d) ==
    {i \in Nodes(d) : InDsigNamespace(d[i].tag) /\ LocalName(d[i].tag) = "Signature"}

(***************************************************************************)
(* The XML verifier, utils/samlUtils.ts.                                   *)
(***************************************************************************)
\* signedXml.LoadXml(sig); await signedXml.Verify(): called without a key, so
\* the signature is checked against the key of the certificate embedded in
\* its own KeyInfo, and the reference digest is recomputed
Verify(d, s) ==
    /\ d[s].sig.keyInfo # NoCert
    /\ KeyOfCert(d[s].sig.keyInfo) = d[s].sig.signer
    /\ d[s].sig.digestOk

\* the second loop of validateResponseSignature, over the re-parsed wrapper
\* document: the first Signature whose parent's tagName includes 'Response'
ParsedResponseSignature(d) ==
    First({i \in GetSignatures(d) :
             d[i].parent # 0 /\ TagNameIncludes(d[d[i].parent].tag, "Response")})

\* the second loop of validateAssertionSignature, over the re-parsed
\* document: the first Signature whose parent's tagName includes 'Assertion'
ParsedAssertionSignature(d) ==
    First({i \in GetSignatures(d) :
             d[i].parent # 0 /\ TagNameIncludes(d[d[i].parent].tag, "Assertion")})

NotVerified == [passed |-> 0, valid |-> FALSE]

\* validateResponseSignature(xmlDoc): the Signature passed to verification
\* and the verdict
validateResponseSignature(d) ==
    LET responseElement == 1
        signatures == GetSignatures(d)
        responseSignature == First({i \in signatures : d[i].parent = responseElement})
        parsedResponseSignature == ParsedResponseSignature(d)
    IN  IF ~TagNameIncludes(d[responseElement].tag, "Response") THEN NotVerified
        ELSE IF signatures = {} THEN NotVerified
        ELSE IF responseSignature = 0 THEN NotVerified
        ELSE IF parsedResponseSignature = 0 THEN NotVerified
        ELSE [passed |-> parsedResponseSignature,
              valid |-> Verify(d, parsedResponseSignature)]

\* validateAssertionSignature(xmlDoc)
validateAssertionSignature(d) ==
    LET assertionElement == QuerySelector(d, "Assertion")
        signatures == GetSignatures(d)
        assertionSignature == First({i \in signatures : d[i].parent = assertionElement})
        parsedAssertionSignature == ParsedAssertionSignature(d)
    IN  IF assertionElement = 0 THEN NotVerified
        ELSE IF signatures = {} THEN NotVerified
        ELSE IF assertionSignature = 0 THEN NotVerified
        ELSE IF parsedAssertionSignature = 0 THEN NotVerified
        ELSE [passed |-> parsedAssertionSignature,
              valid |-> Verify(d, parsedAssertionSignature)]

ErrNoCertificate == "IDP certificate not configured"
ErrResponse == "Response signature validation failed"
ErrAssertion == "Assertion signature validation failed"
ErrUnsigned == "Neither response nor assertion is signed"

NoResult ==
    [isValid |-> TRUE, responseSigned |-> FALSE, assertionSigned |-> FALSE,
     responseSignatureValid |-> FALSE, assertionSignatureValid |-> FALSE,
     errors |-> <<>>]

\* responseElement.querySelector(':scope > ds\\:Signature, :scope > Signature')
\* of validateSAMLResponse finds a Signature
ResponseHasSignature(d) ==
    LET responseElement == QuerySelector(d, "Response")
    IN  responseElement # 0 /\ ScopeChildSignature(d, responseElement) # 0

\* assertionElement.querySelector(':scope > ds\\:Signature, :scope > Signature')
\* of validateSAMLResponse finds a Signature
AssertionHasSignature(d) ==
    LET assertionElement == QuerySelector(d, "Assertion")
    IN  assertionElement # 0 /\ ScopeChildSignature(d, assertionElement) # 0

\* the calls validateSAMLResponse makes: the check of the Response and the
\* check of the Assertion, each run only for a signed element and only when
\* the IdP certificate is configured
ResponseCheck(d, certificate) ==
    IF certificate # NoCert /\ ResponseHasSignature(d)
    THEN validateResponseSignature(d) ELSE NotVerified

AssertionCheck(d, certificate) ==
    IF certificate # NoCert /\ AssertionHasSignature(d)
    THEN validateAssertionSignature(d) ELSE NotVerified

\* validateSAMLResponse(xmlDoc, sp): the result object
validateSAMLResponse(d, certificate) ==
    LET responseSigned == ResponseHasSignature(d)
        rv == ResponseCheck(d, certificate)
        assertionSigned == AssertionHasSignature(d)
        av == AssertionCheck(d, certificate)
    IN  IF certificate = NoCert
        THEN [NoResult EXCEPT !.isValid = FALSE, !.errors = <<ErrNoCertificate>>]
        ELSE [isValid |-> /\ ~(responseSigned /\ ~rv.valid)
                          /\ ~(assertionSigned /\ ~av.valid)
                          /\ (responseSigned \/ assertionSigned),
              responseSigned |-> responseSigned,
              assertionSigned |-> assertionSigned,
              responseSignatureValid |-> rv.valid,
              assertionSignatureValid |-> av.valid,
              errors |-> (IF responseSigned /\ ~rv.valid THEN <<ErrResponse>> ELSE <<>>)
                         \o (IF assertionSigned /\ ~av.valid THEN <<ErrAssertion>> ELSE <<>>)
                         \o (IF ~responseSigned /\ ~assertionSigned
                             THEN <<ErrUnsigned>> ELSE <<>>)]

(***************************************************************************)
(* The stored configuration: the Service Providers of the SP list.         *)
(***************************************************************************)
StoredSpIds == {"sp1", "sp2"}

\* the sp parameter of a posted Response and of an ACS URL names a stored SP
\* or none of them
UrlSpIds == StoredSpIds \cup {"spX"}

\* sp.signAuthnRequest && sp.privateKey of the stored records
SignsRequests(spId) == spId = "sp1"

(***************************************************************************)
(* The SP store, hooks/useSPStore.ts: the list is kept in the atom and     *)
(* persisted in localStorage under 'saml-sp-list'.  A list is the set of   *)
(* the ids of its records.                                                 *)
(***************************************************************************)
\* localStorage.getItem(LOCAL_STORAGE_KEY) gives null
NoItem == [present |-> FALSE, list |-> {}]

\* the entry holds JSON.stringify(list)
StoredItem(list) == [present |-> TRUE, list |-> list]

\* no component that uses the hook is mounted
NoHook == [mounted |-> FALSE, revision |-> "guarded"]

(***************************************************************************)
(* The request correlation slot, utils/samlUtils.ts.                       *)
(***************************************************************************)
NoRequestId == 0
RequestIdSet == 1..MaxRequests

\* a slot that keeps the id of the first initiation
storeRequestId_KeepFirst(store, spId, requestId) ==
    IF store[spId] = NoRequestId THEN [store EXCEPT ![spId] = requestId] ELSE store

\* storeRequestId(spId, requestId): sessionStorage.setItem(key, requestId)
storeRequestId(store, spId, requestId) == [store EXCEPT ![spId] = requestId]

\* getStoredRequestId(spId): sessionStorage.getItem(key)
getStoredRequestId(store, spId) == store[spId]

\* a clear that leaves the slot as it is
clearStoredRequestId_Keeps(store, spId) == store

\* clearStoredRequestId(spId): sessionStorage.removeItem(key)
clearStoredRequestId(store, spId) == [store EXCEPT ![spId] = NoRequestId]

(***************************************************************************)
(* SAML Responses as the IdP posts them: the SAMLResponse form field is    *)
(* base64 of an XML text, or not base64 at all; the XML text is well       *)
(* formed or not, and carries an InResponseTo attribute (0: none), a       *)
(* NameID and attributes.                                                  *)
(***************************************************************************)
\* no text at all
NoXml == [wellFormed |-> FALSE, inResponseTo |-> NoRequestId, nameId |-> "",
          attributes |-> <<>>]

\* a text with a NameID and an Attribute in it that the parser rejects (a
\* tag is left open): DOMParser gives a document with a parsererror element
MalformedXml ==
    [wellFormed |-> FALSE, inResponseTo |-> NoRequestId, nameId |-> "alice",
     attributes |-> <<[name |-> "email", values |-> <<"a@b.com", "c@d.com">>]>>]

XmlTexts ==
    { [wellFormed |-> TRUE, inResponseTo |-> r, nameId |-> "alice",
       attributes |-> <<[name |-> "email", values |-> <<"a@b.com", "c@d.com">>]>>] :
         r \in {NoRequestId} \cup RequestIdSet }
    \cup {MalformedXml}

EncodedResponses ==
    { [base64 |-> TRUE, xml |-> x] : x \in XmlTexts }
    \cup { [base64 |-> FALSE, xml |-> NoXml] }

\* decodeSamlResponse(encodedResponse): atob, which throws on input that is
\* not base64
decodeSamlResponse(encodedResponse) ==
    IF encodedResponse.base64
    THEN [ok |-> TRUE, xml |-> encodedResponse.xml]
    ELSE [ok |-> FALSE, xml |-> NoXml]

(***************************************************************************)
(* The response relay: functions/acs.js stores the bundle under a fresh    *)
(* response id, pages/ACS.tsx takes it once.                               *)
(***************************************************************************)
\* const expiry = Date.now() + (1 * 60 * 1000), in units of the clock
RelayTtl == 1

NoRelayState == ""
NoBundle ==
    [stored |-> FALSE, samlResponse |-> [base64 |-> FALSE, xml |-> NoXml],
     relayState |-> NoRelayState, spId |-> "", expiresAt |-> 0]

\* sessionStorage.setItem('saml-response-' + responseId, JSON.stringify(data))
setItem(storage, responseId, data) == [storage EXCEPT ![responseId] = data]

\* a removal that leaves the entry in place
removeItem_Keeps(storage, responseId) == storage

\* sessionStorage.removeItem(key)
removeItem(storage, responseId) == [storage EXCEPT ![responseId] = NoBundle]

\* an expiry test that never fires
IsExpired_Never(data, t) == FALSE

\* if (!data.expiresAt || Date.now() > data.expiresAt)
IsExpired(data, t) == data.expiresAt = 0 \/ t > data.expiresAt

(***************************************************************************)
(* The ACS page, pages/ACS.tsx.                                            *)
(***************************************************************************)
NoError == ""
ErrNotFound == "SAML response not found in session storage or already used."
ErrExpired == "SAML response has expired."
ErrEncoding == "Failed to process SAML response: Invalid SAML response encoding"
ErrInvalidXml == "Failed to process SAML response: Invalid XML in SAML response"
ErrNoResponseId == "No response ID found in URL parameters"
ErrSpNotFound(spId) == "Service Provider not found: " \o spId

NoSamlResponse ==
    [status |-> "none", nameId |-> "", attributes |-> <<>>, rawXml |-> NoXml,
     requestId |-> NoRequestId, relayState |-> NoRelayState, validation |-> "none"]

\* the page before it is visited; besides the state of the component, the
\* page records what its one call of fetchSamlDataFromSessionStorage met: the
\* entry it read (saw), when (takenAt), what the take gave (take) and the
\* request id that processing found stored (storedRequestId); fetches counts
\* the calls of fetchSamlDataFromSessionStorage of the visit
NoPage ==
    [mounted |-> FALSE, spId |-> "", responseId |-> 0, spList |-> {},
     effectPending |-> FALSE, sp |-> "", isLoading |-> TRUE, error |-> NoError,
     samlResponse |-> NoSamlResponse, hasProcessedResponse |-> FALSE,
     take |-> "none", takenAt |-> 0, saw |-> NoBundle,
     storedRequestId |-> NoRequestId, fetches |-> 0, listLoaded |-> FALSE]

\* the page as a page load mounts it: the state of the useState calls and
\* the SP list atom still empty, so that the first run of the effect has
\* returned at 'spList.length === 0'
MountedPage(spId, responseId) ==
    [NoPage EXCEPT !.mounted = TRUE, !.spId = spId, !.responseId = responseId]

(***************************************************************************)
(* The attributes of a Response, pages/ACS.tsx.  The Attribute elements of *)
(* a document are a sequence in document order, each with its Name ("":    *)
(* none) and the text contents of its AttributeValue elements in document  *)
(* order ("": an empty element).  The parsed attributes are a function     *)
(* from names to lists of values.                                          *)
(***************************************************************************)
\* valueElements.forEach(val => { if (val.textContent) values.push(...) })
CollectValues(valueElements) == SelectSeq(valueElements, LAMBDA text : text # "")

\* attributes[name] = values
SetAttribute(attributes, name, values) ==
    [n \in DOMAIN attributes \cup {name} |->
        IF n = name THEN values ELSE attributes[n]]

\* attributeElements.forEach(attr => { if (name) { ... } }), from the
\* attributes collected so far
RECURSIVE ForEachAttribute(_, _)
ForEachAttribute(attributeElements, attributes) ==
    IF attributeElements = <<>>
    THEN attributes
    ELSE LET attr == Head(attributeElements)
         IN  ForEachAttribute(
                 Tail(attributeElements),
                 IF attr.name # ""
                 THEN SetAttribute(attributes, attr.name, CollectValues(attr.values))
                 ELSE attributes)

\* const attributes: Record<string, string[]> = {}; ...forEach(...)
ParseAttributes(attributeElements) == ForEachAttribute(attributeElements, <<>>)

\* a processing that refuses a Response answering another request than the
\* stored one
processSAMLResponseData_Strict(encodedResponse, spId, relayState, store) ==
    LET decoded == decodeSamlResponse(encodedResponse)
        xmlDoc == decoded.xml
        storedRequestId == getStoredRequestId(store, spId)
        refused == [error |-> "Failed to process SAML response: InResponseTo mismatch",
                    samlResponse |-> NoSamlResponse, storedRequestId |-> storedRequestId,
                    parsed |-> TRUE, store |-> store]
    IN  IF ~decoded.ok
        THEN [refused EXCEPT !.error = ErrEncoding, !.storedRequestId = NoRequestId,
                             !.parsed = FALSE]
        ELSE IF ~xmlDoc.wellFormed
        THEN [refused EXCEPT !.error = ErrInvalidXml, !.storedRequestId = NoRequestId,
                             !.parsed = FALSE]
        ELSE IF /\ storedRequestId # NoRequestId
                /\ xmlDoc.inResponseTo # NoRequestId
                /\ xmlDoc.inResponseTo # storedRequestId
        THEN [refused EXCEPT !.store = clearStoredRequestId(store, spId)]
        ELSE [error |-> NoError,
              samlResponse |->
                  [status |-> "success", nameId |-> xmlDoc.nameId,
                   attributes |-> ParseAttributes(xmlDoc.attributes), rawXml |-> xmlDoc,
                   requestId |-> xmlDoc.inResponseTo, relayState |-> relayState,
                   validation |-> "promise"],
              storedRequestId |-> storedRequestId,
              parsed |-> TRUE,
              store |-> IF storedRequestId # NoRequestId
                        THEN clearStoredRequestId(store, spId) ELSE store]

\* processSAMLResponseData(encodedResponse, sp, relayState): the error or the
\* response handed to the UI, the request id found stored, and the
\* correlation slots afterwards
processSAMLResponseData(encodedResponse, spId, relayState, store) ==
    LET decoded == decodeSamlResponse(encodedResponse)
        xmlDoc == decoded.xml
        storedRequestId == getStoredRequestId(store, spId)
    IN  IF ~decoded.ok
        THEN [error |-> ErrEncoding, samlResponse |-> NoSamlResponse,
              storedRequestId |-> NoRequestId, parsed |-> FALSE, store |-> store]
        ELSE IF ~xmlDoc.wellFormed
        THEN [error |-> ErrInvalidXml, samlResponse |-> NoSamlResponse,
              storedRequestId |-> NoRequestId, parsed |-> FALSE, store |-> store]
        ELSE [error |-> NoError,
              samlResponse |->
                  [status |-> "success", nameId |-> xmlDoc.nameId,
                   attributes |-> ParseAttributes(xmlDoc.attributes), rawXml |-> xmlDoc,
                   requestId |-> xmlDoc.inResponseTo, relayState |-> relayState,
                   validation |-> "promise"],
              storedRequestId |-> storedRequestId,
              parsed |-> TRUE,
              store |-> IF storedRequestId # NoRequestId
                        THEN clearStoredRequestId(store, spId) ELSE store]

\* a fetch that processes the bundle for the SP the bundle names
fetchSamlDataFromSessionStorage_BundleSp(responseId, spId, storage, store, t) ==
    LET data == storage[responseId]
        notProcessed == [error |-> NoError, samlResponse |-> NoSamlResponse,
                         storedRequestId |-> NoRequestId, parsed |-> FALSE,
                         store |-> store]
    IN  IF ~data.stored
        THEN [take |-> "NotFound", storage |-> storage,
              out |-> [notProcessed EXCEPT !.error = ErrNotFound]]
        ELSE IF IsExpired(data, t)
        THEN [take |-> "Expired", storage |-> removeItem(storage, responseId),
              out |-> [notProcessed EXCEPT !.error = ErrExpired]]
        ELSE [take |-> "bundle", storage |-> removeItem(storage, responseId),
              out |-> processSAMLResponseData(data.samlResponse, data.spId,
                                              data.relayState, store)]

\* fetchSamlDataFromSessionStorage(responseId, sp, urlSpId): what the take
\* gave (the bundle, NotFound or Expired), the storage afterwards and the
\* outcome of processing the bundle
fetchSamlDataFromSessionStorage(responseId, spId, storage, store, t) ==
    LET data == storage[responseId]
        notProcessed == [error |-> NoError, samlResponse |-> NoSamlResponse,
                         storedRequestId |-> NoRequestId, parsed |-> FALSE,
                         store |-> store]
    IN  IF ~data.stored
        THEN [take |-> "NotFound", storage |-> storage,
              out |-> [notProcessed EXCEPT !.error = ErrNotFound]]
        ELSE IF IsExpired(data, t)
        THEN [take |-> "Expired", storage |-> removeItem(storage, responseId),
              out |-> [notProcessed EXCEPT !.error = ErrExpired]]
        ELSE [take |-> "bundle", storage |-> removeItem(storage, responseId),
              out |-> processSAMLResponseData(data.samlResponse, spId,
                                              data.relayState, store)]

(***************************************************************************)
(* The server-side relay of the earlier functions/acs.js: the bundle is    *)
(* kept in the Map samlSessions and fetched with a retrieval request.      *)
(***************************************************************************)
\* expiresAt: Date.now() + (5 * 60 * 1000), in units of the clock
SessionTtl == 5

NoReply == [responseId |-> 0, status |-> 0, at |-> 0, saw |-> NoBundle]

\* if (sessionData.expiresAt < Date.now())
SessionExpired(sessionData, t) == sessionData.expiresAt < t

\* samlSessions.delete(responseId)
deleteSession(sessions, responseId) == [sessions EXCEPT ![responseId] = NoBundle]

\* cleanupExpiredSessions()
cleanupExpiredSessions(sessions, t) ==
    [r \in DOMAIN sessions |->
        IF sessions[r].stored /\ sessions[r].expiresAt < t THEN NoBundle ELSE sessions[r]]

\* the retrieval branch of onRequestPost: the status of the reply and the
\* Map afterwards
retrieveSession(sessions, responseId, t) ==
    LET sessionData == sessions[responseId]
    IN  IF ~sessionData.stored
        THEN [status |-> 404, sessions |-> sessions]
        ELSE IF SessionExpired(sessionData, t)
        THEN [status |-> 410, sessions |-> deleteSession(sessions, responseId)]
        ELSE [status |-> 200, sessions |-> deleteSession(sessions, responseId)]

(***************************************************************************)
(* The SP record and the request builder, utils/samlUtils.ts.  The text of *)
(* an AuthnRequest is the record of the values createAuthnRequest writes   *)
(* into its template, as written; what a reader of the XML gets from it is *)
(* ReadRequest.                                                            *)
(***************************************************************************)
PlainSsoUrl == "https://idp.example.com/sso"
QuerySsoUrl == "https://idp.example.com/sso?tenant=a&app=b"
SsoUrls == {PlainSsoUrl, QuerySsoUrl}

\* a text that the URL parser rejects (a space in the host)
BadSsoUrl == "https://idp example.com/sso"

\* the URL parser accepts the text
ValidUrl(url) == url # BadSsoUrl
EntityIds == {"urn:test:sp", "https://sp.example.com/metadata"}
NameIdFormats ==
    {"urn:oasis:names:tc:SAML:1.1:nameid-format:unspecified",
     "urn:oasis:names:tc:SAML:1.1:nameid-format:emailAddress"}

\* the PEM texts of a freshly generated key pair and certificate
\* (generateSigningCertificate), and a text that is not a PKCS#8 key
SpKey == "SpKey"
SpCert == "SpCert"
BadPem == "not a key"

\* the value holds a character that is markup inside XML: '&', '<' or '"'
HasMarkup(value) == value = QuerySsoUrl

\* emptySP(id) of pages/Home.tsx
emptySP ==
    [id |-> "sp1", entityId |-> "", acsUrl |-> "", spAcsBinding |-> "POST",
     privateKey |-> "", certificate |-> "", signAuthnRequest |-> FALSE,
     nameIdFormat |-> "",
     idp |-> [ssoUrl |-> "", singleSignOnBinding |-> "POST"]]

\* what the configuration form can hold when validateForm passes: entity id,
\* certificate, private key, NameID format and the IdP's SSO URL are not
\* empty; the binding select offers POST and GET
FormData ==
    { [emptySP EXCEPT !.entityId = e, !.privateKey = k,
                      !.certificate = SpCert, !.signAuthnRequest = sg,
                      !.nameIdFormat = f,
                      !.idp = [ssoUrl |-> u, singleSignOnBinding |-> sb]] :
        e \in EntityIds, k \in {SpKey, BadPem}, sg \in BOOLEAN,
        f \in NameIdFormats, u \in SsoUrls, sb \in {"POST", "GET"} }

\* `${window.location.origin}/acs?sp=${spId}`
DerivedAcsUrl(spId) == "https://app.example.com/acs?sp=" \o spId

\* pages/SPConfig.tsx, handleSave: the record given to updateSP
handleSave(formData) ==
    [formData EXCEPT !.acsUrl = DerivedAcsUrl(formData.id),
                     !.spAcsBinding = "POST"]

\* the acsUrl of a record that was saved by the application at another origin
ExportedAcsUrl(spId) == "http://localhost:5173/acs?sp=" \o spId

\* pages/Home.tsx, handleImport: the records of an imported file replace the
\* SP list unvalidated; a file holds records as the page saves them, here or
\* at another origin, records without a private key or without a
\* certificate, records that name the Redirect binding by its SAML name, and
\* Redirect records whose SSO URL is not a URL
ImportedRecords ==
    { [handleSave(formData) EXCEPT !.privateKey = k, !.certificate = c,
                                   !.acsUrl = IF exported
                                              THEN ExportedAcsUrl(formData.id)
                                              ELSE DerivedAcsUrl(formData.id),
                                   !.idp.singleSignOnBinding = sb] :
        formData \in FormData, k \in {"", SpKey}, c \in {"", SpCert},
        exported \in BOOLEAN,
        sb \in {"POST", "HTTP-Redirect"} }
    \cup
    { [handleSave(formData) EXCEPT !.idp = [ssoUrl |-> BadSsoUrl,
                                           singleSignOnBinding |-> "HTTP-Redirect"]] :
        formData \in FormData }

Absent == "(absent)"
NoSignature ==
    [present |-> FALSE, uri |-> NoRequestId, transforms |-> <<>>, digest |-> <<>>,
     signer |-> "", x509 |-> ""]

\* createAuthnRequest(sp, forceAuthn, allowCreate): the template with its
\* holes filled, requestId being what its call of generateRequestId() returns;
\* ForceAuthn is written only when forceAuthn is true
createAuthnRequest(sp, forceAuthn, allowCreate, requestId) ==
    [ID |-> requestId,
     ProtocolBinding |-> "urn:oasis:names:tc:SAML:2.0:bindings:" \o sp.spAcsBinding,
     AssertionConsumerServiceURL |-> sp.acsUrl,
     Destination |-> sp.idp.ssoUrl,
     ForceAuthn |-> IF forceAuthn THEN "true" ELSE Absent,
     Issuer |-> sp.entityId,
     Format |-> sp.nameIdFormat,
     AllowCreate |-> IF allowCreate THEN "true" ELSE "false",
     Signature |-> NoSignature]

\* the text is well-formed XML: no value was written with markup in it (the
\* template does not escape what it interpolates; a generated id is made of
\* letters and digits)
WellFormedRequest(samlRequest) ==
    \A name \in {"ProtocolBinding", "AssertionConsumerServiceURL",
                 "Destination", "Issuer", "Format"} : ~HasMarkup(samlRequest[name])

ParserError == "(parsererror)"

\* what an XML parser reads from the text for an attribute or element
ReadRequest(samlRequest, name) ==
    IF WellFormedRequest(samlRequest) THEN samlRequest[name] ELSE ParserError

\* the text before any request was built
NoRequest ==
    [ID |-> NoRequestId, ProtocolBinding |-> "", AssertionConsumerServiceURL |-> "",
     Destination |-> "", ForceAuthn |-> Absent, Issuer |-> "", Format |-> "",
     AllowCreate |-> "", Signature |-> NoSignature]

(***************************************************************************)
(* The XML signer, signAuthnRequest, and the verification the integration  *)
(* test applies to its output.                                             *)
(***************************************************************************)
\* convertPemToCryptoKey(pem, 'private'): importKey('pkcs8', ...) succeeds
ImportsAsPrivateKey(pem) == pem = SpKey

\* the private key whose public half the SP's certificate carries
KeyOfSpCert(cert) == IF cert = SpCert THEN SpKey ELSE "none"

\* signOptions.references[0].transforms
SignTransforms == <<"enveloped", "exc-c14n">>

HasTransform(transforms, t) == \E i \in DOMAIN transforms : transforms[i] = t

\* the octets a reference digest is computed over: the referenced element
\* after the transforms, the enveloped-signature transform taking the
\* Signature out of it
Canonical(samlRequest, transforms) ==
    <<samlRequest.ProtocolBinding, samlRequest.AssertionConsumerServiceURL,
      samlRequest.Destination, samlRequest.ForceAuthn, samlRequest.Issuer,
      samlRequest.Format, samlRequest.AllowCreate,
      IF samlRequest.Signature.present /\ ~HasTransform(transforms, "enveloped")
      THEN "ds:Signature" ELSE "">>

\* what makes the try block of signAuthnRequest throw: the text does not
\* parse to an AuthnRequest element with an ID, or the key does not import
SigningThrows(samlRequest, privateKeyPem) ==
    \/ ~WellFormedRequest(samlRequest)
    \/ samlRequest.ID = NoRequestId
    \/ ~ImportsAsPrivateKey(privateKeyPem)

\* signAuthnRequest(samlRequest, privateKeyPem, certificatePem): the request
\* with the Signature after its Issuer; the catch returns the request as it
\* came
signAuthnRequest(samlRequest, privateKeyPem, certificatePem) ==
    IF SigningThrows(samlRequest, privateKeyPem)
    THEN samlRequest
    ELSE [samlRequest EXCEPT !.Signature =
            [present |-> TRUE, uri |-> samlRequest.ID,
             transforms |-> SignTransforms,
             digest |-> Canonical(samlRequest, SignTransforms),
             signer |-> privateKeyPem, x509 |-> certificatePem]]

\* Parse(signed); new SignedXml(doc).LoadXml(signature); Verify(): the
\* reference is resolved, its digest recomputed under the transforms the
\* Signature names, and the signature value checked with the key of the
\* embedded certificate
VerifyRequest(samlRequest) ==
    /\ WellFormedRequest(samlRequest)
    /\ samlRequest.Signature.present
    /\ samlRequest.Signature.uri = samlRequest.ID
    /\ samlRequest.Signature.x509 # ""
    /\ KeyOfSpCert(samlRequest.Signature.x509) = samlRequest.Signature.signer
    /\ samlRequest.Signature.digest =
           Canonical(samlRequest, samlRequest.Signature.transforms)

(***************************************************************************)
(* The request codec.  A compressed stream is the text it holds and the    *)
(* container it is in: "raw" (no header), "zlib" or "gzip"; "none" is text *)
(* that was not compressed.                                                *)
(***************************************************************************)
\* pako.deflate(text, {level: 9, raw})
Deflate(text, raw) == [container |-> IF raw THEN "raw" ELSE "zlib", data |-> text]

\* pako.inflate(stream, {to: 'string', raw}): with raw the stream is read as
\* headerless; without it the header is looked for (zlib or gzip) and a
\* stream without one is an error
Inflate(stream, raw) ==
    IF raw
    THEN [ok |-> stream.container = "raw", text |-> stream.data]
    ELSE [ok |-> stream.container \in {"zlib", "gzip"}, text |-> stream.data]

\* btoa of a byte string, atob of a base64 text
Btoa(bytes) == [base64 |-> TRUE, bytes |-> bytes]
Atob(text) == [ok |-> text.base64, bytes |-> text.bytes]

ErrRequestEncoding == "Invalid SAML request encoding"

\* encodeSamlRequest(samlRequest): raw deflate, then base64
encodeSamlRequest(samlRequest) == Btoa(Deflate(samlRequest, TRUE))

\* base64EncodeSamlRequest(samlRequest): base64 only
base64EncodeSamlRequest(samlRequest) ==
    Btoa([container |-> "none", data |-> samlRequest])

\* decodeSamlRequest(encodedRequest): atob, then pako.inflate without the raw
\* option; whatever is thrown becomes the one error
decodeSamlRequest(encodedRequest) ==
    LET decoded == Atob(encodedRequest)
        inflated == Inflate(decoded.bytes, FALSE)
    IN  IF decoded.ok /\ inflated.ok
        THEN [ok |-> TRUE, value |-> inflated.text, error |-> NoError]
        ELSE [ok |-> FALSE, value |-> Absent, error |-> ErrRequestEncoding]

(***************************************************************************)
(* initiateSamlAuth: the gate to the signer and the dispatch.              *)
(***************************************************************************)
\* a gate that asks for the key only
ShouldSign_KeyOnly(sp) == sp.privateKey # ""

\* if (sp.signAuthnRequest && sp.privateKey)
ShouldSign(sp) == sp.signAuthnRequest /\ sp.privateKey # ""

\* samlRequest.match(/ID="([^"]+)"/): the first ID attribute of the text is
\* the one of the AuthnRequest element, also after the signer has put the
\* Signature behind the Issuer; generateRequestId() when there is none
ExtractRequestId_Fresh(samlRequest, fresh) == fresh

ExtractRequestId(samlRequest, fresh) ==
    IF samlRequest.ID # NoRequestId THEN samlRequest.ID ELSE fresh

\* what throws after storeRequestId: 'window.location.href = url' with a url
\* that does not parse (SyntaxError)
DispatchThrows(sp) ==
    sp.idp.singleSignOnBinding = "HTTP-Redirect" /\ ~ValidUrl(sp.idp.ssoUrl)

ErrInitiate == "Failed to initiate SAML authentication"

NoDispatch ==
    [method |-> "none", url |-> "", carrier |-> "none",
     SAMLRequest |-> base64EncodeSamlRequest(NoRequest), RelayState |-> ""]

\* the encoding and the transport of initiateSamlAuth: both test
\* sp.idp.singleSignOnBinding === 'HTTP-Redirect'; relayState || sp.id
Dispatch(sp, samlRequest, relayState) ==
    LET finalRelayState == IF relayState # "" THEN relayState ELSE sp.id
    IN  IF sp.idp.singleSignOnBinding = "HTTP-Redirect"
        THEN [method |-> "GET", url |-> sp.idp.ssoUrl, carrier |-> "query",
              SAMLRequest |-> encodeSamlRequest(samlRequest),
              RelayState |-> finalRelayState]
        ELSE [method |-> "POST", url |-> sp.idp.ssoUrl, carrier |-> "form",
              SAMLRequest |-> base64EncodeSamlRequest(samlRequest),
              RelayState |-> finalRelayState]

\* no call of initiateSamlAuth was made
NoInitiation == [phase |-> "idle"]

\* no utility function was called
NoArg == [fn |-> "none", input |-> <<>>]
NoRet == [fn |-> "none", ok |-> FALSE, value |-> Absent, error |-> NoError]

FlowInit ==
    /\ now = 0
    /\ requestIds = [s \in StoredSpIds |-> NoRequestId]
    /\ samlResponses = [r \in 1..MaxResponses |-> NoBundle]
    /\ nextRequestId = 1
    /\ nextResponseId = 1
    /\ inflight = {}
    /\ acs = NoPage
    /\ uncorrelated = [s \in StoredSpIds |-> <<>>]
    /\ consumed = [r \in RequestIdSet |-> <<>>]
    /\ returned = [r \in 1..MaxResponses |-> 0]
    /\ deployed = "page"
    /\ samlSessions = [r \in 1..MaxResponses |-> NoBundle]
    /\ reply = NoReply
    /\ served = [r \in 1..MaxResponses |-> 0]
    /\ savedSp = emptySP
    /\ initiation = NoInitiation
    /\ arg = NoArg
    /\ ret = NoRet
    /\ localStorage = StoredItem(StoredSpIds)
    /\ spListAtom = {}
    /\ hook = NoHook

\* the lifetime of a bundle in the relay that is deployed
Lifetime == IF deployed = "server" THEN SessionTtl ELSE RelayTtl

\* the clock advances, up to MaxTime past the lifetime of a bundle
Tick ==
    /\ now < Lifetime + MaxTime
    /\ now' = now + 1
    /\ UNCHANGED <<requestIds, samlResponses, nextRequestId, nextResponseId,
                   inflight, acs, uncorrelated, consumed, returned>>
    /\ UNCHANGED <<verifyVars, serverVars, buildVars, utilVars, storeVars>>

\* initiateSamlAuth(sp) of an SP that does not sign: the request is created,
\* its id stored and the request dispatched without an await in between
InitiateUnsigned(spId) ==
    /\ nextRequestId <= MaxRequests
    /\ ~SignsRequests(spId)
    /\ nextRequestId' = nextRequestId + 1
    /\ requestIds' = storeRequestId(requestIds, spId, nextRequestId)
    /\ uncorrelated' = [uncorrelated EXCEPT ![spId] = Append(@, nextRequestId)]
    /\ UNCHANGED <<now, samlResponses, nextResponseId, inflight, acs, consumed,
                   returned>>
    /\ UNCHANGED <<verifyVars, serverVars, buildVars, utilVars, storeVars>>

\* initiateSamlAuth(sp) of an SP that signs, up to await signAuthnRequest(...)
InitiateSigned(spId) ==
    /\ nextRequestId <= MaxRequests
    /\ SignsRequests(spId)
    /\ nextRequestId' = nextRequestId + 1
    /\ inflight' = inflight \cup {[spId |-> spId, requestId |-> nextRequestId]}
    /\ UNCHANGED <<now, requestIds, samlResponses, nextResponseId, acs,
                   uncorrelated, consumed, returned>>
    /\ UNCHANGED <<verifyVars, serverVars, buildVars, utilVars, storeVars>>

\* a continuation that dispatches the request and leaves the slot alone
SignerReturns_DispatchOnly(call) ==
    /\ call \in inflight
    /\ inflight' = inflight \ {call}
    /\ uncorrelated' = [uncorrelated EXCEPT ![call.spId] = Append(@, call.requestId)]
    /\ UNCHANGED <<now, requestIds, samlResponses, nextRequestId, nextResponseId,
                   acs, consumed, returned>>
    /\ UNCHANGED <<verifyVars, serverVars, buildVars, utilVars, storeVars>>

\* initiateSamlAuth(sp) after the signer returned (the signed request, or the
\* unsigned one when signing failed): the id is stored and the request
\* dispatched
SignerReturns(call) ==
    /\ call \in inflight
    /\ inflight' = inflight \ {call}
    /\ requestIds' = storeRequestId(requestIds, call.spId, call.requestId)
    /\ uncorrelated' = [uncorrelated EXCEPT ![call.spId] = Append(@, call.requestId)]
    /\ UNCHANGED <<now, samlResponses, nextRequestId, nextResponseId, acs,
                   consumed, returned>>
    /\ UNCHANGED <<verifyVars, serverVars, buildVars, utilVars, storeVars>>

\* functions/acs.js, onRequestPost: the IdP posts SAMLResponse and RelayState
\* to /acs?sp=<spId>; the page it answers with stores the bundle in
\* sessionStorage and loads /sp/<spId>/acs?response=<responseId>
AcsPost(spId, samlResponse, relayState) ==
    /\ deployed = "page"
    /\ nextResponseId <= MaxResponses
    /\ nextResponseId' = nextResponseId + 1
    /\ samlResponses' =
           setItem(samlResponses, nextResponseId,
                   [stored |-> TRUE, samlResponse |-> samlResponse,
                    relayState |-> relayState, spId |-> spId,
                    expiresAt |-> now + RelayTtl])
    /\ acs' = MountedPage(spId, nextResponseId)
    /\ UNCHANGED <<now, requestIds, nextRequestId, inflight, uncorrelated,
                   consumed, returned>>
    /\ UNCHANGED <<verifyVars, serverVars, buildVars, utilVars, storeVars>>

\* the user loads the ACS page again: a reload, or the URL opened once more,
\* with a response id issued before or with none
AcsVisit(spId, responseId) ==
    /\ acs.mounted
    /\ responseId < nextResponseId
    /\ acs' = MountedPage(spId, responseId)
    /\ UNCHANGED <<now, requestIds, samlResponses, nextRequestId, nextResponseId,
                   inflight, uncorrelated, consumed, returned>>
    /\ UNCHANGED <<verifyVars, serverVars, buildVars, utilVars, storeVars>>

\* hooks/useSPStore.ts, the load effect of the hook the page mounts: if the
\* entry is stored, setSpList(parsed) puts its list into the atom and the
\* page renders again
SpListLoaded ==
    /\ acs.mounted
    /\ ~acs.listLoaded
    /\ localStorage.present
    /\ acs' = [acs EXCEPT !.spList = localStorage.list, !.listLoaded = TRUE,
                          !.effectPending = TRUE]
    /\ UNCHANGED <<now, requestIds, samlResponses, nextRequestId, nextResponseId,
                   inflight, uncorrelated, consumed, returned>>
    /\ UNCHANGED <<verifyVars, serverVars, buildVars, utilVars, storeVars>>

\* an effect that processes on every run
ShouldProcess_Always(page) == TRUE

\* if (!hasProcessedResponse), with the hasProcessedResponse of the render
\* the effect belongs to
ShouldProcess(page) == ~page.hasProcessedResponse

\* setHasProcessedResponse(true); fetchSamlDataFromSessionStorage(responseId,
\* foundSp, spId) and the state it sets: the page and the session (the
\* storage, the correlation slots and what is recorded of them) afterwards;
\* setError is called on a failure only, setSamlResponse on success only
FetchStep(page, session, t) ==
    LET f == fetchSamlDataFromSessionStorage(page.responseId, page.spId,
                                             session.storage, session.store, t)
    IN  [page |->
            [page EXCEPT !.sp = page.spId,
                         !.hasProcessedResponse = TRUE,
                         !.error = IF f.out.error # NoError THEN f.out.error ELSE @,
                         !.samlResponse = IF f.out.error = NoError
                                          THEN f.out.samlResponse ELSE @,
                         !.isLoading = FALSE,
                         !.take = f.take,
                         !.takenAt = t,
                         !.saw = session.storage[page.responseId],
                         !.storedRequestId = f.out.storedRequestId,
                         !.fetches = @ + 1],
         session |->
            [storage |-> f.storage,
             store |-> f.out.store,
             returned |-> IF f.take = "bundle"
                          THEN [session.returned EXCEPT ![page.responseId] = @ + 1]
                          ELSE session.returned,
             consumed |-> IF f.out.storedRequestId # NoRequestId
                          THEN [session.consumed EXCEPT
                                    ![f.out.storedRequestId] = Append(@, page.spId)]
                          ELSE session.consumed,
             uncorrelated |-> IF f.out.parsed
                              THEN [session.uncorrelated EXCEPT ![page.spId] = <<>>]
                              ELSE session.uncorrelated]]

\* pages/ACS.tsx, the effect of [spId, spList, hasProcessedResponse] after
\* the load effect of the hook set the SP list, with the calls it makes
\* (while the list is empty it returns at 'spList.length === 0'):
\* fetchSamlDataFromSessionStorage and processSAMLResponseData.  The run that
\* setHasProcessedResponse(true) triggers is part of this step: it is a run
\* of the same effect with the new hasProcessedResponse.
AcsLoadEffect ==
    /\ acs.mounted
    /\ acs.effectPending
    /\ IF acs.spList = {}
       THEN /\ acs' = [acs EXCEPT !.effectPending = FALSE]
            /\ UNCHANGED <<requestIds, samlResponses, uncorrelated, consumed, returned>>
       ELSE IF acs.spId \notin acs.spList
       THEN /\ acs' = [acs EXCEPT !.effectPending = FALSE, !.error = ErrSpNotFound(acs.spId),
                                  !.isLoading = FALSE]
            /\ UNCHANGED <<requestIds, samlResponses, uncorrelated, consumed, returned>>
       ELSE IF ~ShouldProcess(acs)
       THEN /\ acs' = [acs EXCEPT !.effectPending = FALSE, !.sp = acs.spId]
            /\ UNCHANGED <<requestIds, samlResponses, uncorrelated, consumed, returned>>
       ELSE IF acs.responseId = 0
       THEN /\ acs' = [acs EXCEPT !.effectPending = FALSE, !.sp = acs.spId,
                                  !.error = ErrNoResponseId, !.isLoading = FALSE]
            /\ UNCHANGED <<requestIds, samlResponses, uncorrelated, consumed, returned>>
       ELSE LET session == [storage |-> samlResponses, store |-> requestIds,
                            returned |-> returned, consumed |-> consumed,
                            uncorrelated |-> uncorrelated]
                first == FetchStep(acs, session, now)
                rerun == IF ShouldProcess(first.page)
                         THEN FetchStep(first.page, first.session, now)
                         ELSE first
            IN  /\ acs' = [rerun.page EXCEPT !.effectPending = FALSE]
                /\ samlResponses' = rerun.session.storage
                /\ requestIds' = rerun.session.store
                /\ returned' = rerun.session.returned
                /\ consumed' = rerun.session.consumed
                /\ uncorrelated' = rerun.session.uncorrelated
    /\ UNCHANGED <<now, nextRequestId, nextResponseId, inflight>>
    /\ UNCHANGED <<verifyVars, serverVars, buildVars, utilVars, storeVars>>

\* the earlier onRequestPost, storage branch: the IdP posts a Response to
\* /acs?sp=<spId>; the bundle is put into the Map and expired sessions are
\* cleaned up.  The page of that revision, which the redirect loads and
\* which sends the retrieval request, is not part of the source.
SessionStore(spId, samlResponse, relayState) ==
    /\ deployed = "server"
    /\ nextResponseId <= MaxResponses
    /\ nextResponseId' = nextResponseId + 1
    /\ samlSessions' =
           cleanupExpiredSessions(
               [samlSessions EXCEPT ![nextResponseId] =
                    [stored |-> TRUE, samlResponse |-> samlResponse,
                     relayState |-> relayState, spId |-> spId,
                     expiresAt |-> now + SessionTtl]],
               now)
    /\ UNCHANGED <<deployed, reply, served>>
    /\ UNCHANGED <<now, requestIds, samlResponses, nextRequestId, inflight, acs,
                   uncorrelated, consumed, returned>>
    /\ UNCHANGED <<verifyVars, buildVars, utilVars, storeVars>>

\* the earlier onRequestPost, retrieval branch: a request without sp carries
\* the response id in its body
SessionRetrieve(responseId) ==
    /\ deployed = "server"
    /\ responseId < nextResponseId
    /\ LET r == retrieveSession(samlSessions, responseId, now)
       IN  /\ samlSessions' = r.sessions
           /\ reply' = [responseId |-> responseId, status |-> r.status, at |-> now,
                        saw |-> samlSessions[responseId]]
           /\ served' = IF r.status = 200
                        THEN [served EXCEPT ![responseId] = @ + 1] ELSE served
    /\ UNCHANGED deployed
    /\ UNCHANGED flowVars
    /\ UNCHANGED <<verifyVars, buildVars, utilVars, storeVars>>

(***************************************************************************)
(* The verifier's specification: a Response document is put together       *)
(* element by element and then validated for an SP.                        *)
(***************************************************************************)
VerifyInit ==
    /\ \E t \in RootTags : doc = <<[tag |-> t, parent |-> 0, sig |-> NoSig]>>
    /\ idpCertificate \in {NoCert, IdPCert}
    /\ vpc = "building"
    /\ result = NoResult
    /\ respPassed = 0
    /\ asrtPassed = 0
    /\ now = 0
    /\ requestIds = [s \in StoredSpIds |-> NoRequestId]
    /\ samlResponses = [r \in 1..MaxResponses |-> NoBundle]
    /\ nextRequestId = 1
    /\ nextResponseId = 1
    /\ inflight = {}
    /\ acs = NoPage
    /\ uncorrelated = [s \in StoredSpIds |-> <<>>]
    /\ consumed = [r \in RequestIdSet |-> <<>>]
    /\ returned = [r \in 1..MaxResponses |-> 0]
    /\ deployed = "page"
    /\ samlSessions = [r \in 1..MaxResponses |-> NoBundle]
    /\ reply = NoReply
    /\ served = [r \in 1..MaxResponses |-> 0]
    /\ savedSp = emptySP
    /\ initiation = NoInitiation
    /\ arg = NoArg
    /\ ret = NoRet
    /\ localStorage = StoredItem(StoredSpIds)
    /\ spListAtom = {}
    /\ hook = NoHook

\* the IdP (or an attacker) adds an element to the document
AppendElement ==
    /\ vpc = "building"
    /\ Len(doc) < MaxNodes
    /\ \E p \in {i \in AncestorsOrSelf(doc, Len(doc)) : doc[i].tag \in ElementTags},
          t \in ElementTags :
          doc' = Append(doc, [tag |-> t, parent |-> p, sig |-> NoSig])
    /\ UNCHANGED <<idpCertificate, vpc, result, respPassed, asrtPassed>>
    /\ UNCHANGED <<flowVars, serverVars, buildVars, utilVars, storeVars>>

\* the IdP (or an attacker) adds a Signature element to the document
AppendSignature ==
    /\ vpc = "building"
    /\ Len(doc) < MaxNodes
    /\ \E p \in {i \in AncestorsOrSelf(doc, Len(doc)) : doc[i].tag \in ElementTags},
          t \in SignatureTags, a \in SigAttrs :
          doc' = Append(doc, [tag |-> t, parent |-> p,
                              sig |-> IF t = DsigSignatureTag THEN a ELSE NoSig])
    /\ UNCHANGED <<idpCertificate, vpc, result, respPassed, asrtPassed>>
    /\ UNCHANGED <<flowVars, serverVars, buildVars, utilVars, storeVars>>

\* a call of validateSAMLResponse(xmlDoc, sp) for the document runs to its end
ValidateResponse ==
    /\ vpc = "building"
    /\ result' = validateSAMLResponse(doc, idpCertificate)
    /\ respPassed' = ResponseCheck(doc, idpCertificate).passed
    /\ asrtPassed' = AssertionCheck(doc, idpCertificate).passed
    /\ vpc' = "validated"
    /\ UNCHANGED <<doc, idpCertificate>>
    /\ UNCHANGED <<flowVars, serverVars, buildVars, utilVars, storeVars>>

VerifyNext == AppendElement \/ AppendSignature \/ ValidateResponse

VerifySpec == VerifyInit /\ [][VerifyNext]_vars

(***************************************************************************)
(* What the claims about the verifier speak of.                            *)
(***************************************************************************)
Validated == vpc = "validated"

\* the target elements: the root Response and the first Assertion
TargetResponse == IF doc[1].tag = ResponseTag THEN 1 ELSE 0
TargetAssertion == QuerySelector(doc, "Assertion")

\* the Signature elements that are direct children of element p
DirectSignatures(p) ==
    {i \in Nodes(doc) : p # 0 /\ doc[i].parent = p /\ LocalName(doc[i].tag) = "Signature"}

\* the signature s verifies under the public key of the certificate cert
VerifiesUnder(s, cert) ==
    /\ cert # NoCert
    /\ InDsigNamespace(doc[s].tag)
    /\ doc[s].sig.signer = KeyOfCert(cert)
    /\ doc[s].sig.digestOk

\* the first direct-child Signature of element p verifies under the
\* configured IdP certificate
SignedAndTrusted(p) ==
    /\ DirectSignatures(p) # {}
    /\ VerifiesUnder(Min(DirectSignatures(p)), idpCertificate)

\* C1: a ...SignatureValid flag is true only when a direct-child Signature of
\* the element verifies under the key of the configured IdP certificate; an
\* element signed only with other keys is reported invalid and the result is
\* not valid.
C1_OnlyConfiguredKeyVerifies ==
    Validated =>
        /\ result.responseSignatureValid =>
              \E s \in DirectSignatures(TargetResponse) : VerifiesUnder(s, idpCertificate)
        /\ result.assertionSignatureValid =>
              \E s \in DirectSignatures(TargetAssertion) : VerifiesUnder(s, idpCertificate)
        /\ \A p \in {TargetResponse, TargetAssertion} :
              (/\ DirectSignatures(p) # {}
               /\ \A s \in DirectSignatures(p) : doc[s].sig.signer # KeyOfCert(idpCertificate))
              => ~result.isValid

\* C2: the Signature passed to verification is a direct child of the target
\* element (the root Response, the selected Assertion), whatever the shape
\* of the document.
C2_VerifiedSignatureIsDirectChild ==
    Validated =>
        /\ respPassed # 0 => doc[respPassed].parent = 1
        /\ asrtPassed # 0 => doc[asrtPassed].parent = TargetAssertion

\* the case C3 is about: the root Response has no direct-child Signature and
\* the Assertion carries a direct-child Signature that verifies
AssertionOnlySigned ==
    /\ TargetResponse = 1
    /\ DirectSignatures(1) = {}
    /\ TargetAssertion # 0
    /\ \E s \in DirectSignatures(TargetAssertion) :
          InDsigNamespace(doc[s].tag) /\ Verify(doc, s)

\* C3: for a document whose root Response has no direct-child Signature and
\* whose Assertion carries a valid direct-child Signature, the result has
\* responseSigned = false, responseSignatureValid = false and
\* assertionSigned = true.
C3_AssertionSignatureNotCountedForResponse ==
    (Validated /\ AssertionOnlySigned) =>
        /\ ~result.responseSigned
        /\ ~result.responseSignatureValid
        /\ result.assertionSigned

\* C3, the part the code keeps: the Assertion's signature is never counted as
\* a signature of the Response.
C3_ResponseNotSigned ==
    (Validated /\ AssertionOnlySigned) =>
        ~result.responseSigned /\ ~result.responseSignatureValid

C3_Witness ==
    Validated /\ AssertionOnlySigned /\ idpCertificate # NoCert /\ result.assertionSigned

InErrors(e) == \E i \in 1..Len(result.errors) : result.errors[i] = e

\* C4: isValid is true exactly when the IdP certificate is configured, the
\* Response or the Assertion carries a direct-child Signature and every
\* signed element has a valid signature; a document with no Signature at all
\* yields isValid = false, responseSigned = false, assertionSigned = false
\* and the error entry that neither is signed.
C4_IsValidExactly ==
    Validated =>
        /\ result.isValid <=>
              /\ idpCertificate # NoCert
              /\ \/ DirectSignatures(QuerySelector(doc, "Response")) # {}
                 \/ DirectSignatures(TargetAssertion) # {}
              /\ \A p \in {QuerySelector(doc, "Response"), TargetAssertion} :
                    DirectSignatures(p) # {} => SignedAndTrusted(p)
        /\ (\A i \in Nodes(doc) : LocalName(doc[i].tag) # "Signature") =>
              /\ ~result.isValid
              /\ ~result.responseSigned
              /\ ~result.assertionSigned
              /\ InErrors(ErrUnsigned)

\* C5: responseSigned (assertionSigned) is true exactly when the Response
\* (Assertion) has a direct-child Signature, whatever else fails, and when
\* both are signed and both invalid the errors hold one entry for each.
C5_PartialStatesReported ==
    Validated =>
        /\ result.responseSigned <=> DirectSignatures(QuerySelector(doc, "Response")) # {}
        /\ result.assertionSigned <=> DirectSignatures(TargetAssertion) # {}
        /\ (/\ result.responseSigned /\ ~result.responseSignatureValid
            /\ result.assertionSigned /\ ~result.assertionSignatureValid)
           => InErrors(ErrResponse) /\ InErrors(ErrAssertion)

(***************************************************************************)
(* The specifications of the browser session.                              *)
(***************************************************************************)
\* no document is under validation
SessionInit ==
    /\ doc = <<[tag |-> ResponseTag, parent |-> 0, sig |-> NoSig]>>
    /\ idpCertificate = IdPCert
    /\ vpc = "building"
    /\ result = NoResult
    /\ respPassed = 0
    /\ asrtPassed = 0
    /\ FlowInit

\* the Response the IdP posts when the content is of no concern
PlainResponse ==
    [base64 |-> TRUE,
     xml |-> [wellFormed |-> TRUE, inResponseTo |-> NoRequestId, nameId |-> "alice",
              attributes |-> <<[name |-> "email", values |-> <<"a@b.com", "c@d.com">>]>>]]

\* The relay: Responses are posted and the ACS page is visited, again and
\* again, while the clock runs.
RelayNext ==
    \/ Tick
    \/ \E s \in UrlSpIds, rs \in {NoRelayState, "state"} : AcsPost(s, PlainResponse, rs)
    \/ \E s \in UrlSpIds, r \in 0..MaxResponses : AcsVisit(s, r)
    \/ SpListLoaded
    \/ AcsLoadEffect
    \/ \E s \in StoredSpIds : SessionStore(s, PlainResponse, "state")
    \/ \E r \in 1..MaxResponses : SessionRetrieve(r)

\* either revision of functions/acs.js is the one deployed
RelayInit ==
    /\ doc = <<[tag |-> ResponseTag, parent |-> 0, sig |-> NoSig]>>
    /\ idpCertificate = IdPCert
    /\ vpc = "building"
    /\ result = NoResult
    /\ respPassed = 0
    /\ asrtPassed = 0
    /\ now = 0
    /\ requestIds = [s \in StoredSpIds |-> NoRequestId]
    /\ samlResponses = [r \in 1..MaxResponses |-> NoBundle]
    /\ nextRequestId = 1
    /\ nextResponseId = 1
    /\ inflight = {}
    /\ acs = NoPage
    /\ uncorrelated = [s \in StoredSpIds |-> <<>>]
    /\ consumed = [r \in RequestIdSet |-> <<>>]
    /\ returned = [r \in 1..MaxResponses |-> 0]
    /\ deployed \in {"page", "server"}
    /\ samlSessions = [r \in 1..MaxResponses |-> NoBundle]
    /\ reply = NoReply
    /\ served = [r \in 1..MaxResponses |-> 0]
    /\ savedSp = emptySP
    /\ initiation = NoInitiation
    /\ arg = NoArg
    /\ ret = NoRet
    /\ localStorage = StoredItem(StoredSpIds)
    /\ spListAtom = {}
    /\ hook = NoHook

RelaySpec == RelayInit /\ [][RelayNext]_vars

\* The correlation of requests and Responses: initiations, posted Responses
\* of every content and the ACS page loading them, within the lifetime of
\* the bundles.  The page is loaded again only at the URL of a bundle that
\* is still stored.
FlowNext ==
    \/ \E s \in StoredSpIds : InitiateUnsigned(s)
    \/ \E s \in StoredSpIds : InitiateSigned(s)
    \/ \E c \in inflight : SignerReturns(c)
    \/ \E s \in StoredSpIds, m \in EncodedResponses : AcsPost(s, m, "state")
    \/ \E r \in 1..MaxResponses :
          samlResponses[r].stored /\ AcsVisit(samlResponses[r].spId, r)
    \/ SpListLoaded
    \/ AcsLoadEffect

FlowSpec == SessionInit /\ [][FlowNext]_vars

(***************************************************************************)
(* What the claims about the relay and the correlation slot speak of.      *)
(***************************************************************************)
\* this visit of the ACS page has called takeOnce
Took == acs.take # "none"

\* the server-side relay has answered a retrieval request
Retrieved == reply.responseId # 0

\* C6: the relay is one-shot.  A bundle is handed on at most once; the take
\* that meets the stored bundle before its expiry returns it and removes it;
\* every take after that one reports NotFound, whatever was stored and taken
\* under other response ids.
C6_RelayOneShot ==
    /\ \A r \in 1..MaxResponses :
          /\ returned[r] <= 1
          /\ returned[r] = 1 => ~samlResponses[r].stored
    /\ Took =>
          /\ (acs.saw.stored /\ acs.takenAt <= acs.saw.expiresAt)
                => (acs.take = "bundle" /\ returned[acs.responseId] = 1)
          /\ ~acs.saw.stored => (acs.take = "NotFound" /\ acs.error = ErrNotFound)
          /\ (returned[acs.responseId] = 1 /\ acs.take # "bundle")
                => acs.take = "NotFound"
    /\ \A r \in 1..MaxResponses :
          /\ served[r] <= 1
          /\ served[r] = 1 => ~samlSessions[r].stored
    /\ Retrieved =>
          /\ (reply.saw.stored /\ reply.at <= reply.saw.expiresAt)
                => (reply.status = 200 /\ served[reply.responseId] = 1)
          /\ ~reply.saw.stored => reply.status = 404
          /\ (served[reply.responseId] = 1 /\ reply.status # 200)
                => reply.status = 404

C6_Witness ==
    /\ Took
    /\ acs.take = "NotFound"
    /\ returned[acs.responseId] = 1
    /\ \E r \in 1..MaxResponses : r # acs.responseId /\ returned[r] = 1

C6_WitnessServer ==
    /\ Retrieved
    /\ reply.status = 404
    /\ served[reply.responseId] = 1
    /\ \E r \in 1..MaxResponses : r # reply.responseId /\ samlSessions[r].stored

\* a retrieval that meets an expired session answers 410 without the data
\* and deletes the session
ExpiredSessionGone ==
    (Retrieved /\ reply.saw.stored /\ reply.saw.expiresAt < reply.at) =>
        /\ reply.status = 410
        /\ ~samlSessions[reply.responseId].stored
        /\ served[reply.responseId] = 0

\* C7: a take that meets a bundle whose expiresAt lies in the past reports
\* Expired: the bundle is removed, nothing is decoded or handed to the UI,
\* and the page shows the error; the server-side relay answers such a
\* retrieval with 410 and deletes the session.
C7_ExpiredNeverReturned ==
    /\ (Took /\ acs.saw.stored /\ acs.saw.expiresAt < acs.takenAt) =>
          /\ acs.take = "Expired"
          /\ ~samlResponses[acs.responseId].stored
          /\ returned[acs.responseId] = 0
          /\ acs.samlResponse = NoSamlResponse
          /\ acs.error = ErrExpired
          /\ ~acs.isLoading
    /\ ExpiredSessionGone

C7_WitnessServer ==
    Retrieved /\ reply.saw.stored /\ reply.saw.expiresAt < reply.at /\ reply.status = 410

C7_Witness ==
    Took /\ acs.saw.stored /\ acs.saw.expiresAt < acs.takenAt /\ acs.take = "Expired"

Last(q) == q[Len(q)]

\* C8: after initiations for an SP with no Response in between, the slot of
\* the SP holds the id of the most recent one, and no earlier id is
\* retrievable.
C8_SlotHoldsLatestRequest ==
    \A s \in StoredSpIds :
        uncorrelated[s] # <<>> =>
            /\ getStoredRequestId(requestIds, s) = Last(uncorrelated[s])
            /\ \A i \in 1..(Len(uncorrelated[s]) - 1) :
                  getStoredRequestId(requestIds, s) # uncorrelated[s][i]

C8_Witness ==
    \E s \in StoredSpIds :
        /\ Len(uncorrelated[s]) >= 2
        /\ getStoredRequestId(requestIds, s) = Last(uncorrelated[s])

\* C9: the stored request id of an SP is consumed once, by the first Response
\* for that SP that is decoded and parsed: from then to the next initiation
\* the slot is empty, and a second Response finds no stored id.
C9_ConsumedOnce ==
    /\ \A r \in RequestIdSet : Len(consumed[r]) <= 1
    /\ \A s \in StoredSpIds :
          uncorrelated[s] = <<>> => getStoredRequestId(requestIds, s) = NoRequestId
    /\ (Took /\ acs.samlResponse.status = "success" /\ acs.sp \in StoredSpIds) =>
          \/ acs.storedRequestId = NoRequestId
          \/ consumed[acs.storedRequestId] = <<acs.sp>>

C9_Witness ==
    /\ Took
    /\ acs.samlResponse.status = "success"
    /\ acs.storedRequestId = NoRequestId
    /\ nextRequestId = 2
    /\ consumed[1] = <<acs.sp>>
    /\ returned[1] = 1 /\ returned[2] = 1

\* the Response this visit processed answers another request than the one
\* stored for the SP
CorrelationMismatch ==
    /\ Took
    /\ acs.take = "bundle"
    /\ acs.storedRequestId # NoRequestId
    /\ acs.saw.samlResponse.xml.inResponseTo # NoRequestId
    /\ acs.saw.samlResponse.xml.inResponseTo # acs.storedRequestId

\* C10: a correlation mismatch is advisory: the nameId, attributes, rawXml
\* and requestId of the Response reach the UI as they do for a matching
\* Response, and no error is set.
C10_MismatchAdvisory ==
    CorrelationMismatch =>
        /\ acs.samlResponse.status = "success"
        /\ acs.samlResponse.nameId = acs.saw.samlResponse.xml.nameId
        /\ acs.samlResponse.attributes =
               ParseAttributes(acs.saw.samlResponse.xml.attributes)
        /\ acs.samlResponse.rawXml = acs.saw.samlResponse.xml
        /\ acs.samlResponse.requestId = acs.saw.samlResponse.xml.inResponseTo
        /\ acs.error = NoError
        /\ ~acs.isLoading

C10_Witness == CorrelationMismatch /\ acs.samlResponse.status = "success"

(***************************************************************************)
(* What the claims about the processing of a Response speak of.            *)
(***************************************************************************)
\* the response flow of this visit has handed a decoded Response to the UI
Delivered == Took /\ acs.samlResponse.status = "success"

\* C11: the Response handed to the UI holds the completed ValidationResult:
\* the UI never receives a decoded Response whose validation is still the
\* pending promise of validateSAMLResponse.
C11_ValidationCompletedBeforeDelivery ==
    Delivered => acs.samlResponse.validation # "promise"

\* the Response this visit took from the relay decoded to a text that is
\* not well-formed XML
MalformedTaken ==
    /\ Took
    /\ acs.take = "bundle"
    /\ decodeSamlResponse(acs.saw.samlResponse).ok
    /\ ~decodeSamlResponse(acs.saw.samlResponse).xml.wellFormed

\* C20: when the decoded Response is not well-formed XML, processing ends
\* with an error shown to the user, no NameID and no attributes are
\* produced, and the raw decoded text is available for display.
C20_MalformedXmlAbortsRawShown ==
    MalformedTaken =>
        /\ acs.error = ErrInvalidXml
        /\ ~acs.isLoading
        /\ acs.samlResponse.nameId = ""
        /\ acs.samlResponse.attributes = <<>>
        /\ acs.samlResponse.rawXml = decodeSamlResponse(acs.saw.samlResponse).xml

\* C20, the part the code keeps: the flow aborts with the error and
\* produces neither NameID nor attributes.
C20_MalformedXmlAborts ==
    MalformedTaken =>
        /\ acs.error = ErrInvalidXml
        /\ ~acs.isLoading
        /\ acs.samlResponse = NoSamlResponse

C20_Witness == MalformedTaken /\ acs.error = ErrInvalidXml

(***************************************************************************)
(* The specification of an initiation: the record that handleAdd put into  *)
(* the SP list is saved through the configuration page or replaced by an   *)
(* import, and initiateSamlAuth is called for it once (the dispatch        *)
(* navigates the browser to the IdP).                                      *)
(***************************************************************************)
\* pages/SPConfig.tsx, handleSave with a form that validateForm passes:
\* updateSP(spId, ...) replaces the record of the SP list
SaveConfig(formData) ==
    /\ initiation.phase = "idle"
    /\ savedSp' = handleSave(formData)
    /\ UNCHANGED initiation
    /\ UNCHANGED <<verifyVars, flowVars, serverVars, utilVars, storeVars>>

\* pages/Home.tsx, handleImport: setSpList(parsed)
ImportConfig(sp) ==
    /\ initiation.phase = "idle"
    /\ savedSp' = sp
    /\ UNCHANGED initiation
    /\ UNCHANGED <<verifyVars, flowVars, serverVars, utilVars, storeVars>>

\* pages/Home.tsx, handleAdd: addSP(emptySP(newId))
handleAdd ==
    /\ initiation.phase = "idle"
    /\ savedSp' = emptySP
    /\ UNCHANGED initiation
    /\ UNCHANGED <<verifyVars, flowVars, serverVars, utilVars, storeVars>>

\* the end of initiateSamlAuth: the id is read off the request and stored,
\* the request encoded and dispatched
Dispatched(call, samlRequest, relayState) ==
    [call EXCEPT !.phase = "dispatched", !.samlRequest = samlRequest,
                 !.dispatch = Dispatch(call.sp, samlRequest, relayState)]

\* the catch of initiateSamlAuth: the promise it returned is rejected with
\* the one error.  handleInitiateAuth called it without await inside its
\* try, so its catch (alert, setIsInitiating(false)) is not run
Rejected(call, samlRequest) ==
    [call EXCEPT !.phase = "failed", !.samlRequest = samlRequest,
                 !.error = ErrInitiate]

\* initiateSamlAuth from the stored id on: the dispatch, or what it throws
Completed(call, samlRequest, relayState) ==
    IF DispatchThrows(call.sp)
    THEN Rejected(call, samlRequest)
    ELSE Dispatched(call, samlRequest, relayState)

\* initiateSamlAuth(sp, forceAuthn, allowCreate, relayState) for the saved
\* record: up to await signAuthnRequest(...) when the request goes to the
\* signer, to its end when it does not
InitiateAuth(forceAuthn, allowCreate, relayState) ==
    /\ initiation.phase = "idle"
    /\ savedSp.entityId # "" /\ savedSp.idp.ssoUrl # ""
    /\ nextRequestId <= MaxRequests
    /\ nextRequestId' = nextRequestId + 1
    /\ LET built == createAuthnRequest(savedSp, forceAuthn, allowCreate, nextRequestId)
           call == [phase |-> "called", sp |-> savedSp, forceAuthn |-> forceAuthn,
                    allowCreate |-> allowCreate, built |-> built,
                    toSigner |-> FALSE, signingThrew |-> FALSE,
                    samlRequest |-> built, dispatch |-> NoDispatch,
                    error |-> NoError, isInitiating |-> TRUE, alerted |-> FALSE,
                    slotBefore |-> getStoredRequestId(requestIds, savedSp.id)]
       IN  IF ShouldSign(savedSp)
           THEN /\ initiation' = [call EXCEPT !.phase = "signing", !.toSigner = TRUE,
                                              !.signingThrew =
                                                  SigningThrows(built, savedSp.privateKey),
                                              !.samlRequest =
                                                  signAuthnRequest(built, savedSp.privateKey,
                                                                   savedSp.certificate),
                                              !.dispatch =
                                                  [NoDispatch EXCEPT !.RelayState = relayState]]
                /\ inflight' = inflight \cup {[spId |-> savedSp.id,
                                               requestId |-> nextRequestId]}
                /\ UNCHANGED <<requestIds, uncorrelated>>
           ELSE /\ initiation' = Completed(call, built, relayState)
                /\ requestIds' = storeRequestId(requestIds, savedSp.id,
                                      ExtractRequestId(built, nextRequestId + 1))
                /\ uncorrelated' =
                       IF DispatchThrows(savedSp) THEN uncorrelated
                       ELSE [uncorrelated EXCEPT ![savedSp.id] = Append(@, built.ID)]
                /\ UNCHANGED inflight
    /\ UNCHANGED <<now, samlResponses, nextResponseId, acs, consumed, returned>>
    /\ UNCHANGED savedSp
    /\ UNCHANGED <<verifyVars, serverVars, utilVars, storeVars>>

\* initiateSamlAuth after the signer returned what it returns
SignerDone ==
    /\ initiation.phase = "signing"
    /\ initiation' = Completed(initiation, initiation.samlRequest,
                               initiation.dispatch.RelayState)
    /\ inflight' = inflight \ {[spId |-> initiation.sp.id,
                                requestId |-> initiation.samlRequest.ID]}
    /\ requestIds' = storeRequestId(requestIds, initiation.sp.id,
                          ExtractRequestId(initiation.samlRequest, nextRequestId))
    /\ uncorrelated' =
           IF DispatchThrows(initiation.sp) THEN uncorrelated
           ELSE [uncorrelated EXCEPT ![initiation.sp.id] =
                    Append(@, initiation.samlRequest.ID)]
    /\ UNCHANGED <<now, samlResponses, nextRequestId, nextResponseId, acs,
                   consumed, returned>>
    /\ UNCHANGED savedSp
    /\ UNCHANGED <<verifyVars, serverVars, utilVars, storeVars>>

\* the user loads the Initiate page again after a call that failed: the
\* state of the page is its initial state, sessionStorage is kept
ReloadInitiate ==
    /\ initiation.phase = "failed"
    /\ initiation' = NoInitiation
    /\ UNCHANGED savedSp
    /\ UNCHANGED <<verifyVars, flowVars, serverVars, utilVars, storeVars>>

InitiateNext ==
    \/ handleAdd
    \/ ReloadInitiate
    \/ \E formData \in FormData : SaveConfig(formData)
    \/ \E sp \in ImportedRecords : ImportConfig(sp)
    \/ \E forceAuthn \in BOOLEAN, allowCreate \in BOOLEAN, relayState \in {"", "state"} :
          InitiateAuth(forceAuthn, allowCreate, relayState)
    \/ SignerDone

InitiateSpec == SessionInit /\ [][InitiateNext]_vars

\* the call of initiateSamlAuth has dispatched its request
HasDispatched == initiation.phase = "dispatched"

\* the AuthnRequest that the dispatch carries, read back from its encoding
DispatchedRequest == initiation.dispatch.SAMLRequest.bytes.data

\* C12: when sp.signAuthnRequest is true and signing fails (the key does not
\* import, or the signer throws), the failure is raised to the caller: no
\* initiation dispatches an unsigned AuthnRequest without an error.
C12_SigningFailureReported ==
    (/\ HasDispatched
     /\ initiation.sp.signAuthnRequest
     /\ initiation.signingThrew
     /\ ~DispatchedRequest.Signature.present)
        => initiation.error # NoError

\* C13: the built request goes to the signer exactly when
\* sp.signAuthnRequest is true and a private key is present; a request
\* dispatched for an SP with signAuthnRequest false has no Signature; what
\* createAuthnRequest built has none.
C13_SignerGate ==
    initiation.phase # "idle" =>
        /\ initiation.toSigner <=>
               (initiation.sp.signAuthnRequest /\ initiation.sp.privateKey # "")
        /\ (HasDispatched /\ ~initiation.sp.signAuthnRequest)
               => ~DispatchedRequest.Signature.present
        /\ ~initiation.built.Signature.present

\* a request was dispatched for an SP that holds a key and does not sign
C13_Witness ==
    /\ HasDispatched
    /\ ~initiation.sp.signAuthnRequest
    /\ initiation.sp.privateKey = SpKey
    /\ ~initiation.toSigner

\* C14: the dispatch follows the configured IdP SSO binding: an SP
\* configured for Redirect (GET) has its request deflated and base64 encoded
\* and sent as a GET to ssoUrl with the query parameters SAMLRequest and
\* RelayState; an SP configured for POST has it base64 encoded only and sent
\* as a form POST with the fields SAMLRequest and RelayState.
C14_DispatchFollowsBinding ==
    HasDispatched =>
        /\ initiation.dispatch.url = initiation.sp.idp.ssoUrl
        /\ initiation.sp.idp.singleSignOnBinding = "GET" =>
               /\ initiation.dispatch.method = "GET"
               /\ initiation.dispatch.carrier = "query"
               /\ initiation.dispatch.SAMLRequest =
                      encodeSamlRequest(initiation.samlRequest)
        /\ initiation.sp.idp.singleSignOnBinding = "POST" =>
               /\ initiation.dispatch.method = "POST"
               /\ initiation.dispatch.carrier = "form"
               /\ initiation.dispatch.SAMLRequest =
                      base64EncodeSamlRequest(initiation.samlRequest)

\* the part of C14 that holds: the encoding and the transport agree
C14_EncodingAgreesWithTransport ==
    HasDispatched =>
        (initiation.dispatch.method = "GET"
            <=> initiation.dispatch.SAMLRequest.bytes.container = "raw")

\* a request was dispatched for an SP configured for the Redirect binding
C14_Witness == HasDispatched /\ initiation.sp.idp.singleSignOnBinding = "GET"

\* the record is one that handleSave wrote
SavedThroughPage(sp) == \E formData \in FormData : sp = handleSave(formData)

\* C15: every AuthnRequest built for an SP record saved through the
\* configuration page carries
\* ProtocolBinding="urn:oasis:names:tc:SAML:2.0:bindings:HTTP-POST".
C15_ProtocolBindingHttpPost ==
    (initiation.phase # "idle" /\ SavedThroughPage(initiation.sp)) =>
        initiation.built.ProtocolBinding =
            "urn:oasis:names:tc:SAML:2.0:bindings:HTTP-POST"

\* a request was built for a record that handleSave wrote
C15_Witness == initiation.phase # "idle" /\ SavedThroughPage(initiation.sp)

\* C16: the request createAuthnRequest emits has ForceAuthn="true" exactly
\* when forceAuthn is true, NameIDPolicy AllowCreate equal to allowCreate,
\* Destination equal to sp.idp.ssoUrl, Issuer equal to sp.entityId and
\* NameIDPolicy Format equal to sp.nameIdFormat.
C16_RequestMirrorsInputs ==
    initiation.phase # "idle" =>
        /\ ReadRequest(initiation.built, "ForceAuthn") = "true"
               <=> initiation.forceAuthn
        /\ ReadRequest(initiation.built, "AllowCreate") =
               (IF initiation.allowCreate THEN "true" ELSE "false")
        /\ ReadRequest(initiation.built, "Destination") = initiation.sp.idp.ssoUrl
        /\ ReadRequest(initiation.built, "Issuer") = initiation.sp.entityId
        /\ ReadRequest(initiation.built, "Format") = initiation.sp.nameIdFormat

\* the part of C16 that holds: the values are mirrored whenever none of them
\* holds markup
C16_PlainValuesMirrored ==
    (initiation.phase # "idle" /\ WellFormedRequest(initiation.built))
        => C16_RequestMirrorsInputs

\* a request was built with an SSO URL that carries a query string
C16_Witness ==
    initiation.phase # "idle" /\ initiation.sp.idp.ssoUrl = QuerySsoUrl

\* the signer was given a request with the key and the certificate of one
\* freshly generated pair, and has returned
SignedWithFreshPair ==
    /\ HasDispatched
    /\ initiation.toSigner
    /\ initiation.sp.privateKey = SpKey
    /\ initiation.sp.certificate = SpCert

\* C18: for a freshly generated key pair and certificate and a request built
\* by createAuthnRequest, the output of signAuthnRequest contains a Signature
\* whose digest and signature value verify under the verifier's
\* recomputation.
C18_SignedRequestVerifies ==
    SignedWithFreshPair => VerifyRequest(initiation.samlRequest)

\* the part of C18 that holds: the output verifies when the request is
\* well-formed XML
C18_WellFormedRequestVerifies ==
    (SignedWithFreshPair /\ WellFormedRequest(initiation.built))
        => VerifyRequest(initiation.samlRequest)

\* the signer returned a request of a fresh pair without a Signature
C18_Witness == SignedWithFreshPair /\ ~initiation.samlRequest.Signature.present

(***************************************************************************)
(* The specification of the utility functions: the request codec and the   *)
(* attribute parsing, each applied to an argument drawn from its inputs.   *)
(***************************************************************************)
\* XML strings given to the codec
XmlStrings ==
    {"", "<samlp:AuthnRequest ID=\"_a1\"/>",
     "<samlp:AuthnRequest ID=\"_b2\"><saml:Issuer>urn:test:sp</saml:Issuer></samlp:AuthnRequest>"}

\* what decodeSamlRequest may be given: the output of encodeSamlRequest, a
\* base64 text of a zlib stream, of uncompressed text, and a text that is
\* not base64
EncodedRequests ==
    { encodeSamlRequest(x) : x \in XmlStrings }
    \cup { Btoa(Deflate(x, FALSE)) : x \in XmlStrings }
    \cup { base64EncodeSamlRequest(x) : x \in XmlStrings }
    \cup { [base64 |-> FALSE, bytes |-> [container |-> "none", data |-> "%%%"]] }

\* the AttributeValue elements of an Attribute: none, one, two, an empty one
\* before or after a value
AttributeValueLists ==
    { <<>>, <<"a@b.com">>, <<"a@b.com", "c@d.com">>, <<"c@d.com", "a@b.com">>,
      <<"", "a@b.com">>, <<"a@b.com", "">> }

AttributeElements ==
    [name : {"", "email", "role"}, values : AttributeValueLists]

\* the sequences of up to n Attribute elements
RECURSIVE AttributeLists(_)
AttributeLists(n) ==
    IF n = 0 THEN {<<>>}
    ELSE LET shorter == AttributeLists(n - 1)
         IN  shorter \cup { Append(l, e) : l \in shorter, e \in AttributeElements }

UtilCalls ==
    { [fn |-> "encodeSamlRequest", input |-> x] : x \in XmlStrings }
    \cup { [fn |-> "decodeSamlRequest", input |-> e] : e \in EncodedRequests }
    \cup { [fn |-> "parseAttributes", input |-> l] : l \in AttributeLists(MaxAttributes) }

UtilInit ==
    /\ doc = <<[tag |-> ResponseTag, parent |-> 0, sig |-> NoSig]>>
    /\ idpCertificate = IdPCert
    /\ vpc = "building"
    /\ result = NoResult
    /\ respPassed = 0
    /\ asrtPassed = 0
    /\ now = 0
    /\ requestIds = [s \in StoredSpIds |-> NoRequestId]
    /\ samlResponses = [r \in 1..MaxResponses |-> NoBundle]
    /\ nextRequestId = 1
    /\ nextResponseId = 1
    /\ inflight = {}
    /\ acs = NoPage
    /\ uncorrelated = [s \in StoredSpIds |-> <<>>]
    /\ consumed = [r \in RequestIdSet |-> <<>>]
    /\ returned = [r \in 1..MaxResponses |-> 0]
    /\ deployed = "page"
    /\ samlSessions = [r \in 1..MaxResponses |-> NoBundle]
    /\ reply = NoReply
    /\ served = [r \in 1..MaxResponses |-> 0]
    /\ savedSp = emptySP
    /\ initiation = NoInitiation
    /\ arg \in UtilCalls
    /\ ret = NoRet
    /\ localStorage = StoredItem(StoredSpIds)
    /\ spListAtom = {}
    /\ hook = NoHook

\* encodeSamlRequest(samlRequest) is called
CallEncode ==
    /\ arg.fn = "encodeSamlRequest"
    /\ ret.fn = "none"
    /\ ret' = [fn |-> arg.fn, ok |-> TRUE, value |-> encodeSamlRequest(arg.input),
               error |-> NoError]
    /\ UNCHANGED arg
    /\ UNCHANGED <<verifyVars, flowVars, serverVars, buildVars, storeVars>>

\* decodeSamlRequest(encodedRequest) is called with what encodeSamlRequest
\* returned
CallDecodeEncoded ==
    /\ ret.fn = "encodeSamlRequest"
    /\ arg' = [fn |-> "decodeSamlRequest", input |-> ret.value]
    /\ ret' = [fn |-> "decodeSamlRequest"] @@ decodeSamlRequest(ret.value)
    /\ UNCHANGED <<verifyVars, flowVars, serverVars, buildVars, storeVars>>

\* decodeSamlRequest(encodedRequest) is called
CallDecode ==
    /\ arg.fn = "decodeSamlRequest"
    /\ ret.fn = "none"
    /\ ret' = [fn |-> arg.fn] @@ decodeSamlRequest(arg.input)
    /\ UNCHANGED arg
    /\ UNCHANGED <<verifyVars, flowVars, serverVars, buildVars, storeVars>>

\* the attribute loop of processSAMLResponseData runs over the Attribute
\* elements of a parsed Response
CallParseAttributes ==
    /\ arg.fn = "parseAttributes"
    /\ ret.fn = "none"
    /\ ret' = [fn |-> arg.fn, ok |-> TRUE, value |-> ParseAttributes(arg.input),
               error |-> NoError]
    /\ UNCHANGED arg
    /\ UNCHANGED <<verifyVars, flowVars, serverVars, buildVars, storeVars>>

UtilNext ==
    \/ CallEncode
    \/ CallDecodeEncoded
    \/ CallDecode
    \/ CallParseAttributes

UtilSpec == UtilInit /\ [][UtilNext]_vars

\* C17: for every XML string x, decodeSamlRequest(encodeSamlRequest(x)) = x.
C17_DecodeInvertsEncode ==
    (/\ ret.fn = "decodeSamlRequest"
     /\ \E x \in XmlStrings : arg.input = encodeSamlRequest(x))
        => /\ ret.ok
           /\ arg.input = encodeSamlRequest(ret.value)

\* decodeSamlRequest was given what encodeSamlRequest made of an XML string
C17_Witness ==
    /\ ret.fn = "decodeSamlRequest"
    /\ arg.input = encodeSamlRequest("<samlp:AuthnRequest ID=\"_a1\"/>")

\* the attribute loop has run over the Attribute elements of arg
ParsedAttributes == ret.fn = "parseAttributes"

\* the positions of the Attribute elements with the Name
Named(attributeElements, name) ==
    { i \in DOMAIN attributeElements : attributeElements[i].name = name }

\* the last of a non-empty set of positions
LastOf(S) == CHOOSE i \in S : \A j \in S : j <= i

\* C19: attributes[name] holds exactly one entry per AttributeValue of the
\* Attribute element named name, in document order; of several Attribute
\* elements with one Name the last in document order wins, their lists are
\* not merged.
C19_OneEntryPerAttributeValue ==
    ParsedAttributes =>
        \A name \in {"email", "role"} :
            Named(arg.input, name) # {} =>
                /\ name \in DOMAIN ret.value
                /\ ret.value[name] = arg.input[LastOf(Named(arg.input, name))].values

\* the part of C19 that holds: the list is the one of the last Attribute
\* element with the Name, its values in document order, the empty ones left
\* out; a Name that no Attribute element has is not a key
C19_LastWinsInOrder ==
    ParsedAttributes =>
        \A name \in {"email", "role"} :
            IF Named(arg.input, name) # {}
            THEN /\ name \in DOMAIN ret.value
                 /\ ret.value[name] =
                        CollectValues(arg.input[LastOf(Named(arg.input, name))].values)
            ELSE name \notin DOMAIN ret.value

\* an Attribute element with an empty AttributeValue was parsed
C19_Witness ==
    /\ ParsedAttributes
    /\ arg.input = <<[name |-> "email", values |-> <<"", "a@b.com">>]>>

\* C27: within one visit of the ACS page the relay bundle is taken at most
\* once, also when the load effect runs again; a Response that is displayed
\* is never replaced by the 'not found or already used' error.
C27_TakenOncePerVisit ==
    /\ acs.fetches <= 1
    /\ acs.samlResponse.status = "success" => acs.error = NoError

\* the effect took the bundle, ran again with hasProcessedResponse set, and
\* the Response is displayed
C27_Witness ==
    /\ acs.take = "bundle"
    /\ acs.hasProcessedResponse
    /\ ~acs.effectPending
    /\ acs.fetches = 1
    /\ acs.samlResponse.status = "success"

\* no call of initiateSamlAuth for the SP awaits the signer
NoneInFlight(s) == \A call \in inflight : call.spId # s

VisitSlots == {NoRequestId, 1}

\* the Responses posted to the visited pages: one that is not base64, one
\* whose XML is malformed, and one well formed answering the request of id 1
VisitResponses ==
    { m \in EncodedResponses :
         m.xml.wellFormed => m.xml.inResponseTo = 1 }

VisitInit ==
    /\ doc = <<[tag |-> ResponseTag, parent |-> 0, sig |-> NoSig]>>
    /\ idpCertificate = IdPCert
    /\ vpc = "building"
    /\ result = NoResult
    /\ respPassed = 0
    /\ asrtPassed = 0
    /\ now = 0
    /\ requestIds \in [StoredSpIds -> VisitSlots]
    /\ samlResponses = [r \in 1..MaxResponses |-> NoBundle]
    /\ nextRequestId = MaxRequests + 1
    /\ nextResponseId = 1
    /\ inflight = {}
    /\ acs = NoPage
    /\ uncorrelated = [s \in StoredSpIds |-> <<>>]
    /\ consumed = [r \in RequestIdSet |-> <<>>]
    /\ returned = [r \in 1..MaxResponses |-> 0]
    /\ deployed = "page"
    /\ samlSessions = [r \in 1..MaxResponses |-> NoBundle]
    /\ reply = NoReply
    /\ served = [r \in 1..MaxResponses |-> 0]
    /\ savedSp = emptySP
    /\ initiation = NoInitiation
    /\ arg = NoArg
    /\ ret = NoRet
    /\ localStorage \in {NoItem, StoredItem({}), StoredItem({"sp1"}),
                         StoredItem(StoredSpIds)}
    /\ spListAtom = {}
    /\ hook = NoHook

VisitNext ==
    \/ \E s \in StoredSpIds, m \in VisitResponses : AcsPost(s, m, "state")
    \/ \E s \in UrlSpIds, r \in 0..MaxResponses : AcsVisit(s, r)
    \/ SpListLoaded
    \/ AcsLoadEffect

VisitSpec == VisitInit /\ [][VisitNext]_vars

\* the page is mounted and none of its steps is left to be taken: the load
\* effect of the hook has run or has nothing to load, and the effect of the
\* page has run for the last render
VisitAtRest ==
    /\ acs.mounted
    /\ ~ENABLED SpListLoaded
    /\ ~ENABLED AcsLoadEffect

\* C28: every visit of the ACS page leaves the loading state, with a decoded
\* Response or with an error message, also when the stored SP list is empty
\* or the requested SP does not exist: a page with no step left is not
\* loading.
C28_VisitLeavesLoading ==
    VisitAtRest =>
        /\ ~acs.isLoading
        /\ acs.samlResponse.status = "success" \/ acs.error # NoError

\* the part of C28 that holds: with an SP list that is not empty the page at
\* rest shows a Response or an error, also for an SP that does not exist
C28_LeavesLoadingWithSpList ==
    (VisitAtRest /\ acs.spList # {}) =>
        /\ ~acs.isLoading
        /\ acs.samlResponse.status = "success" \/ acs.error # NoError

\* the page is at rest with an empty SP list loaded from the store
C28_Witness == VisitAtRest /\ acs.listLoaded /\ acs.spList = {}

\* C29: processing a Response on the ACS page of SP s uses the configuration
\* of s and reads and clears the correlation slot of s only: the slots of
\* all other SPs are unchanged, also when the bundle was posted for another
\* SP than s, which does not stop processing.
C29_OnlyOwnSlotTouched ==
    [][(acs.mounted /\ acs.effectPending /\ ~acs'.effectPending) =>
          /\ \A s \in StoredSpIds : s # acs.spId => requestIds'[s] = requestIds[s]
          /\ acs'.take = "bundle" =>
                /\ acs'.sp = acs.spId
                /\ (decodeSamlResponse(acs'.saw.samlResponse).ok
                    /\ decodeSamlResponse(acs'.saw.samlResponse).xml.wellFormed)
                      => /\ acs'.samlResponse.status = "success"
                         /\ acs'.storedRequestId = requestIds[acs.spId]
                         /\ requestIds'[acs.spId] = NoRequestId]_vars

\* a bundle posted for another SP was processed on the page of an SP, whose
\* slot was cleared, while the slot of the other SP holds an id
C29_Witness ==
    /\ acs.take = "bundle"
    /\ acs.saw.spId # acs.spId
    /\ acs.samlResponse.status = "success"
    /\ acs.storedRequestId # NoRequestId
    /\ requestIds[acs.spId] = NoRequestId
    /\ requestIds[acs.saw.spId] # NoRequestId

(***************************************************************************)
(* The SP store hook, hooks/useSPStore.ts, in its two revisions: the one   *)
(* whose persist effect always writes, and the one with the                *)
(* hasLoadedStorage ref.  A page calls the hook when it mounts; React runs *)
(* the effects of a commit in the order of their declaration, each with    *)
(* the spList of the render it belongs to; a change of the atom renders    *)
(* the page again, and the persist effect runs again for the new spList.   *)
(***************************************************************************)
Revisions == {"unguarded", "guarded"}

\* the hook in the first render of a page: const [spList] = useAtom(...),
\* useRef(false), and both effects to be run
MountedHook(revision, spList) ==
    [mounted |-> TRUE, revision |-> revision, spList |-> spList,
     loadPending |-> TRUE, persistPending |-> TRUE, renderPending |-> FALSE,
     hasLoadedStorage |-> FALSE]

\* no effect and no render of the hook is left to be run
HookAtRest ==
    /\ hook.mounted
    /\ ~hook.loadPending /\ ~hook.persistPending /\ ~hook.renderPending

\* a page load: the module of the atom is evaluated, atom([]), and the page
\* of the route mounts
PageLoad ==
    /\ ~hook.mounted \/ HookAtRest
    /\ spListAtom' = {}
    /\ hook' = MountedHook(hook.revision, {})
    /\ UNCHANGED localStorage
    /\ UNCHANGED <<verifyVars, flowVars, serverVars, buildVars, utilVars>>

\* a route change inside the application: the page of the new route mounts
\* and calls the hook, the atom keeps its list
RouteChange ==
    /\ HookAtRest
    /\ hook' = MountedHook(hook.revision, spListAtom)
    /\ UNCHANGED <<localStorage, spListAtom>>
    /\ UNCHANGED <<verifyVars, flowVars, serverVars, buildVars, utilVars>>

\* the load effect: 'if (hasLoadedStorage.current) return' in the guarded
\* revision, then getItem, 'if (stored) setSpList(parsed)', and
\* 'hasLoadedStorage.current = true' in the guarded revision
LoadEffect ==
    /\ hook.mounted
    /\ hook.loadPending
    /\ IF hook.revision = "guarded" /\ hook.hasLoadedStorage
       THEN /\ hook' = [hook EXCEPT !.loadPending = FALSE]
            /\ UNCHANGED spListAtom
       ELSE IF localStorage.present
       THEN /\ spListAtom' = localStorage.list
            /\ hook' = [hook EXCEPT !.loadPending = FALSE,
                                    !.renderPending = TRUE,
                                    !.hasLoadedStorage = (hook.revision = "guarded")]
       ELSE /\ hook' = [hook EXCEPT !.loadPending = FALSE,
                                    !.hasLoadedStorage = (hook.revision = "guarded")]
            /\ UNCHANGED spListAtom
    /\ UNCHANGED localStorage
    /\ UNCHANGED <<verifyVars, flowVars, serverVars, buildVars, utilVars>>

\* the persist effect writes: always, or 'if (hasLoadedStorage.current)'
PersistWrites(h) == h.revision = "unguarded" \/ h.hasLoadedStorage

\* the persist effect, declared after the load effect:
\* localStorage.setItem(KEY, JSON.stringify(spList)) with the spList of the
\* render
PersistEffect ==
    /\ hook.mounted
    /\ ~hook.loadPending
    /\ hook.persistPending
    /\ localStorage' = IF PersistWrites(hook) THEN StoredItem(hook.spList)
                       ELSE localStorage
    /\ hook' = [hook EXCEPT !.persistPending = FALSE]
    /\ UNCHANGED spListAtom
    /\ UNCHANGED <<verifyVars, flowVars, serverVars, buildVars, utilVars>>

\* the render after the atom has changed: spList is the list of the atom,
\* and the persist effect is to be run for it
Rerender ==
    /\ hook.mounted
    /\ ~hook.loadPending /\ ~hook.persistPending
    /\ hook.renderPending
    /\ hook' = [hook EXCEPT !.spList = spListAtom, !.renderPending = FALSE,
                            !.persistPending = TRUE]
    /\ UNCHANGED <<localStorage, spListAtom>>
    /\ UNCHANGED <<verifyVars, flowVars, serverVars, buildVars, utilVars>>

\* addSP(sp): setSpList(prev => [...prev, sp])
addSP(id) ==
    /\ HookAtRest
    /\ id \notin spListAtom
    /\ spListAtom' = spListAtom \cup {id}
    /\ hook' = [hook EXCEPT !.renderPending = TRUE]
    /\ UNCHANGED localStorage
    /\ UNCHANGED <<verifyVars, flowVars, serverVars, buildVars, utilVars>>

\* deleteSP(id): setSpList(prev => prev.filter(sp => sp.id !== id))
deleteSP(id) ==
    /\ HookAtRest
    /\ id \in spListAtom
    /\ spListAtom' = spListAtom \ {id}
    /\ hook' = [hook EXCEPT !.renderPending = TRUE]
    /\ UNCHANGED localStorage
    /\ UNCHANGED <<verifyVars, flowVars, serverVars, buildVars, utilVars>>

\* the StoreSpec starts with what an earlier session left in localStorage
StoreInit ==
    /\ doc = <<[tag |-> ResponseTag, parent |-> 0, sig |-> NoSig]>>
    /\ idpCertificate = IdPCert
    /\ vpc = "building"
    /\ result = NoResult
    /\ respPassed = 0
    /\ asrtPassed = 0
    /\ now = 0
    /\ requestIds = [s \in StoredSpIds |-> NoRequestId]
    /\ samlResponses = [r \in 1..MaxResponses |-> NoBundle]
    /\ nextRequestId = 1
    /\ nextResponseId = 1
    /\ inflight = {}
    /\ acs = NoPage
    /\ uncorrelated = [s \in StoredSpIds |-> <<>>]
    /\ consumed = [r \in RequestIdSet |-> <<>>]
    /\ returned = [r \in 1..MaxResponses |-> 0]
    /\ deployed = "page"
    /\ samlSessions = [r \in 1..MaxResponses |-> NoBundle]
    /\ reply = NoReply
    /\ served = [r \in 1..MaxResponses |-> 0]
    /\ savedSp = emptySP
    /\ initiation = NoInitiation
    /\ arg = NoArg
    /\ ret = NoRet
    /\ localStorage \in {NoItem} \cup {StoredItem(l) : l \in SUBSET UrlSpIds}
    /\ spListAtom = {}
    /\ hook \in {[NoHook EXCEPT !.revision = r] : r \in Revisions}

StoreNext ==
    \/ PageLoad
    \/ RouteChange
    \/ LoadEffect
    \/ PersistEffect
    \/ Rerender
    \/ \E id \in UrlSpIds : addSP(id)
    \/ \E id \in UrlSpIds : deleteSP(id)

StoreSpec == StoreInit /\ [][StoreNext]_vars

\* C30: mounting the SP store hook never replaces a non-empty persisted SP
\* list by an empty list; the persist effect does not write before the
\* stored list has been loaded into the state: a step that empties a
\* non-empty stored list writes the list of the state, which is empty.
C30_MountKeepsStoredList ==
    [][(localStorage.list # {} /\ localStorage'.list = {}) =>
          spListAtom = {}]_vars

\* the part of C30 that holds: once the effects and the render of a mount
\* have run, localStorage holds the list of the state, and a non-empty list
\* stored before the mount is stored again
C30_SettledStoreHoldsState ==
    HookAtRest => localStorage = StoredItem(spListAtom)

\* a hook has mounted on a non-empty stored list and has come to rest
C30_Witness ==
    /\ HookAtRest
    /\ hook.hasLoadedStorage
    /\ localStorage.list # {}
    /\ localStorage = StoredItem(spListAtom)

\* C21: in every state of the configuration store the acsUrl of a record is
\* the value derived from its id, <origin>/acs?sp=<id>, whatever operation
\* (add, save, import) stored the record.
C21_AcsUrlDerivedFromId == savedSp.acsUrl = DerivedAcsUrl(savedSp.id)

\* a record saved through the configuration page is in the store
C21_Witness == SavedThroughPage(savedSp) /\ savedSp.acsUrl = DerivedAcsUrl(savedSp.id)

\* C22: a stored record with signAuthnRequest = true has a private key and a
\* certificate, and initiateSamlAuth never hands a request to the signer
\* with a key but without a certificate.
C22_NeverPartiallySigned ==
    /\ savedSp.signAuthnRequest =>
          (savedSp.privateKey # "" /\ savedSp.certificate # "")
    /\ (initiation.phase # "idle" /\ initiation.toSigner) =>
          initiation.sp.certificate # ""

\* the part of C22 that holds: a record saved through the configuration page
\* has both, and its requests are signed with both
C22_PageRecordsHaveBoth ==
    /\ SavedThroughPage(savedSp) =>
          (savedSp.privateKey # "" /\ savedSp.certificate # "")
    /\ (initiation.phase # "idle" /\ initiation.toSigner
        /\ SavedThroughPage(initiation.sp)) => initiation.sp.certificate # ""

\* a request of a record with the flag set went to the signer
C22_Witness ==
    /\ initiation.phase = "dispatched"
    /\ initiation.toSigner
    /\ initiation.sp.signAuthnRequest

\* C23: when initiateSamlAuth fails, the Initiate page shows an error and
\* isInitiating is false again: the page never stays in the initiating state
\* after a failed initiation.
C23_FailureRecoveredAtPage ==
    (initiation.phase = "failed") =>
        (initiation.alerted /\ ~initiation.isInitiating)

\* a call of initiateSamlAuth has failed with its error
C23_Witness == initiation.phase = "failed" /\ initiation.error = ErrInitiate

\* C24: after initiateSamlAuth has completed, the request id stored for sp.id
\* is the ID attribute of the AuthnRequest that was dispatched, signed or
\* not.
C24_StoredIdIsDispatchedId ==
    HasDispatched =>
        getStoredRequestId(requestIds, initiation.sp.id) = DispatchedRequest.ID

\* a signed and an unsigned request have been dispatched with their id stored
C24_Witness ==
    /\ HasDispatched
    /\ DispatchedRequest.Signature.present
    /\ getStoredRequestId(requestIds, initiation.sp.id) = DispatchedRequest.ID

\* C25: when initiateSamlAuth fails before the request is dispatched, the
\* correlation slot of the SP is as it was before the call: it never holds
\* the id of a request that was not sent.
C25_FailureLeavesSlot ==
    (initiation.phase = "failed") =>
        getStoredRequestId(requestIds, initiation.sp.id) = initiation.slotBefore

\* a call has failed at the dispatch, after it had built its request
C25_Witness ==
    /\ initiation.phase = "failed"
    /\ initiation.dispatch = NoDispatch \/ initiation.toSigner
    /\ initiation.built.ID # NoRequestId

====
